---- MODULE Spec2Model ----
(***************************************************************************)
(* Instance lifecycle reconciliation of the chall-operator.                *)
(*                                                                         *)
(* The cluster API is the object store: ChallengeInstance objects, the     *)
(* Challenge template, and the concrete resources (Deployments, Services,  *)
(* Ingress, NetworkPolicy).  Reconcile is modelled call by call: every     *)
(* action of the reconciler performs the local computation that precedes   *)
(* one cluster-API call and then that call, so that gateway writes,        *)
(* external deletions, the garbage collector and the clock interleave with *)
(* a pass exactly at the points where the code talks to the cluster.       *)
(***************************************************************************)
EXTENDS Integers, Sequences, FiniteSets, TLC

(***************************************************************************)
(* Bounds of the model.                                                    *)
(***************************************************************************)
MaxTime == 2
MaxUid == 1
MaxFailures == 1

(***************************************************************************)
(* Program constants.                                                      *)
(***************************************************************************)
\* Challenge timeout, in clock units of the model (600 s in the gateway).
TimeoutUnits == 1
\* Port of the challenge container, taken from the Challenge.
ChallengePort == 8080
\* Node port the API server allocates to a NodePort Service.
AllocatedNodePort == 30080

MainName == "a"
InstanceNames == {"a", "a-attackbox"}
\* The flags flaggen.Generate renders: the random component is drawn afresh on
\* every call, so the n-th call yields the n-th value.
FlagValues == << "FLAG{r1}", "FLAG{r2}" >>
ChallengeName == "c1"

\* Spec.ChallengeID and Spec.SourceID of every instance (the SourceID is
\* its own SanitizeForLabel).
ChallengeID == "chall-5"
SourceID == "team-42"

(***************************************************************************)
(* Resource names: builder.DeploymentName and friends.                     *)
(***************************************************************************)
DeploymentName(name) == name \o "-deployment"

ServiceName(name) == name \o "-svc"

AttackBoxDeploymentName(name) == name \o "-attackbox"

AttackBoxServiceName(name) == AttackBoxDeploymentName(name) \o "-svc"

IngressName(name) == name \o "-ingress"

NetworkPolicyName(name) == name \o "-attackbox-netpol"

\* Every (kind, name) the reconciler can address for the instance `name`.
KeysOf(name) ==
    { <<"Deployment", DeploymentName(name)>>,
      <<"Service", ServiceName(name)>>,
      <<"Deployment", AttackBoxDeploymentName(name)>>,
      <<"Service", AttackBoxServiceName(name)>>,
      <<"Ingress", IngressName(name)>>,
      <<"NetworkPolicy", NetworkPolicyName(name)>> }

ResourceKeys == UNION { KeysOf(n) : n \in InstanceNames }

(***************************************************************************)
(* Objects.                                                                *)
(***************************************************************************)
\* A ChallengeInstance; uid = 0 stands for "no such object".
\* until = 0 is Spec.Until == nil.
NoInstance ==
    [ uid |-> 0, name |-> "", challengeName |-> "", until |-> 0,
      phase |-> "", ready |-> FALSE, flags |-> <<>>, connectionInfo |-> "",
      deploymentName |-> "", serviceName |-> "", flagValidated |-> FALSE ]

\* A concrete resource; present = FALSE stands for "no such object" and
\* for the nil a builder returns when the resource is not requested.
NoResource ==
    [ present |-> FALSE, kind |-> "", name |-> "", ownerName |-> "",
      ownerUID |-> 0, controller |-> FALSE, readyReplicas |-> 0,
      svcType |-> "", port |-> 0, nodePort |-> 0, lbHost |-> "",
      flagEnv |-> "", selector |-> {}, policyTypes |-> {}, egress |-> <<>>,
      host |-> "", lbIP |-> "", podLabels |-> {}, paths |-> <<>> ]

\* The Challenge configurations the model ranges over.
ChallengeConfig(attackBox, netpol, ingress, exposeType) ==
    [ attackBox |-> attackBox, networkPolicy |-> netpol, ingress |-> ingress,
      exposeType |-> exposeType, port |-> ChallengePort,
      allowDNS |-> TRUE, allowInternet |-> TRUE, flagTemplate |-> "",
      hostTemplate |-> "" ]

\* A Challenge with the options of its NetworkPolicy set as given.
TemplateConfig(attackBox, netpol, allowDNS, allowInternet, ingress, exposeType) ==
    [ ChallengeConfig(attackBox, netpol, ingress, exposeType) EXCEPT
        !.allowDNS = allowDNS, !.allowInternet = allowInternet ]

\* The exposure modes a Challenge can name (README, "exposeType et Ingress").
ExposeTypes == { "NodePort", "LoadBalancer", "Ingress" }

\* Every Challenge over the options the builders read.
AllChallengeConfigs ==
    { TemplateConfig(ab, np, dns, net, ing, et) :
        ab \in BOOLEAN, np \in BOOLEAN, dns \in BOOLEAN, net \in BOOLEAN,
        ing \in BOOLEAN, et \in ExposeTypes }

ChallengeConfigs ==
    { ChallengeConfig(TRUE, TRUE, TRUE, "NodePort"),
      ChallengeConfig(FALSE, FALSE, FALSE, "NodePort"),
      ChallengeConfig(FALSE, FALSE, TRUE, "LoadBalancer"),
      ChallengeConfig(TRUE, FALSE, FALSE, "LoadBalancer") }

VARIABLES
    instances,      \* name -> ChallengeInstance stored in the cluster
    challenge,      \* configuration of the Challenge object
    challengeExists,\* whether the Challenge object exists
    resources,      \* (kind, name) -> concrete resource stored in the cluster
    now,            \* the clock read by time.Now()
    nextUid,        \* next uid the API server hands out
    drawn,          \* random components crypto/rand has handed out
    queue,          \* instance names waiting in the work queue
    failures,       \* cluster-API calls that failed so far
    pc,             \* position of the Reconcile pass in flight
    req,            \* req.NamespacedName of the pass in flight
    local,          \* the pass's in-memory `instance`
    localStale,     \* the stored object changed since `local` was read
    chal,           \* the pass's in-memory `challenge`
    getErr,         \* err of the last failed Get the pass went on from
    result,         \* (ctrl.Result, error) returned by the pass
    writes,         \* kinds of write call the pass has issued
    callFailed,     \* some cluster-API call of the pass failed
    frozen,         \* no external change happens any more
    seen,           \* status values persisted since `frozen`
    environ,        \* DEFAULT_HOST_TEMPLATE in the environment of the process
    calls           \* calls of pkg/builder functions made outside a pass

vars == << instances, challenge, challengeExists, resources, now, nextUid,
           drawn, queue, failures, pc, req, local, localStale, chal, getErr,
           result, writes, callFailed, frozen, seen, environ, calls >>

storeVars == << instances, challenge, environ, calls, challengeExists, resources,
               now, nextUid >>
passVars == << pc, req, local, localStale, chal, getErr, result, writes, callFailed >>
histVars == << frozen, seen >>

NoResult == [ err |-> FALSE, requeue |-> FALSE, requeueAfter |-> FALSE ]

\* History kept once no external change happens any more: per status field
\* the values an accepted update has replaced, the resources created and
\* whether one was created twice, and whether a pass ended without writing.
NoSeen == [ phase |-> {}, ready |-> {}, flags |-> {}, connectionInfo |-> {},
            deploymentName |-> {}, serviceName |-> {}, created |-> {},
            duplicate |-> FALSE, quietPass |-> FALSE ]


(***************************************************************************)
(* Resource builders (pkg/builder): pure functions of (instance, challenge)*)
(***************************************************************************)
\* Variant: the flag is not injected into the environment.
BuildDeploymentWithoutFlag(instance, c) ==
    [ NoResource EXCEPT !.present = TRUE, !.kind = "Deployment",
                        !.name = DeploymentName(instance.name),
                        !.port = c.port ]

\* Labels every pod of an instance carries, whichever workload it is of.
InstanceLabels(instance) ==
    { <<"ctf.io/challenge", ChallengeID>>, <<"ctf.io/instance", instance.name>>,
      <<"ctf.io/source", SourceID>>,
      <<"app.kubernetes.io/instance", instance.name>>,
      <<"app.kubernetes.io/managed-by", "chall-operator">> }

BuildDeployment(instance, c) ==
    [ NoResource EXCEPT !.present = TRUE, !.kind = "Deployment",
                        !.name = DeploymentName(instance.name),
                        !.port = c.port,
                        !.flagEnv = IF Len(instance.flags) > 0
                                    THEN instance.flags[1] ELSE "",
                        !.selector = { <<"ctf.io/instance", instance.name>> },
                        !.podLabels = InstanceLabels(instance) \cup
                            { <<"app", "challenge">>,
                              <<"app.kubernetes.io/name", "challenge-instance">> } ]

BuildService(instance, c) ==
    [ NoResource EXCEPT !.present = TRUE, !.kind = "Service",
                        !.name = instance.name \o "-svc",
                        !.svcType = IF c.exposeType = "LoadBalancer"
                                    THEN "LoadBalancer" ELSE "NodePort",
                        !.port = c.port,
                        !.selector = { <<"ctf.io/instance", instance.name>> } ]

BuildAttackBoxDeployment(instance, c) ==
    IF ~c.attackBox
    THEN NoResource
    ELSE [ NoResource EXCEPT !.present = TRUE, !.kind = "Deployment",
                             !.name = AttackBoxDeploymentName(instance.name),
                             !.selector =
                                { <<"app", AttackBoxDeploymentName(instance.name)>> },
                             !.podLabels = InstanceLabels(instance) \cup
                                { <<"app", AttackBoxDeploymentName(instance.name)>>,
                                  <<"component", "attackbox">>,
                                  <<"app.kubernetes.io/name", "attackbox">> } ]

BuildAttackBoxService(instance, c) ==
    IF ~c.attackBox
    THEN NoResource
    ELSE [ NoResource EXCEPT !.present = TRUE, !.kind = "Service",
                             !.name = AttackBoxServiceName(instance.name),
                             !.svcType = "ClusterIP", !.port = 8080,
                             !.selector =
                                { <<"app", AttackBoxDeploymentName(instance.name)>> } ]

\* Fallback of getDefaultHostTemplate.
DefaultHostTemplate ==
    "ctf.{{.InstanceName}}.{{.Username}}.{{.ChallengeID}}.devleo.local"

\* Values of DEFAULT_HOST_TEMPLATE: unset, or a template of the operator's
\* deployment.
Environs == { "", "{{.InstanceName}}.env.example" }

\* Host templates a Challenge can carry: none, one that renders, one that
\* does not parse and one that does not execute.
HostTemplates ==
    { "", "{{.InstanceName}}.chall.example", "{{.InstanceName",
      "{{.Missing}}.chall.example" }

\* getDefaultHostTemplate: the environment first, then the fallback.
getDefaultHostTemplate ==
    IF environ # "" THEN environ ELSE DefaultHostTemplate

\* HostContext of BuildIngress and GetIngressHostname.
HostContext(instance) ==
    [ InstanceName |-> instance.name, Username |-> SourceID,
      ChallengeID |-> ChallengeID, SourceID |-> SourceID ]

\* renderHostTemplate: text/template Parse, then Execute on the context.
renderHostTemplate(tmpl, ctx) ==
    CASE tmpl = DefaultHostTemplate ->
           [ hostname |-> "ctf." \o ctx.InstanceName \o "." \o ctx.Username
                            \o "." \o ctx.ChallengeID \o ".devleo.local",
             err |-> FALSE ]
      [] tmpl = "{{.InstanceName}}.chall.example" ->
           [ hostname |-> ctx.InstanceName \o ".chall.example", err |-> FALSE ]
      [] tmpl = "{{.InstanceName}}.env.example" ->
           [ hostname |-> ctx.InstanceName \o ".env.example", err |-> FALSE ]
      [] tmpl = "{{.InstanceName" -> [ hostname |-> "", err |-> TRUE ]
      [] tmpl = "{{.Missing}}.chall.example" -> [ hostname |-> "", err |-> TRUE ]
      [] OTHER -> [ hostname |-> tmpl, err |-> FALSE ]

\* The template BuildIngress and GetIngressHostname render: the one of the
\* Challenge, else the default one.
HostTemplateOf(c) ==
    IF c.hostTemplate # "" THEN c.hostTemplate ELSE getDefaultHostTemplate

\* The hostname of both: the rendering, or the fallback when it failed.
HostnameOf(instance, c) ==
    LET rendered == renderHostTemplate(HostTemplateOf(c), HostContext(instance))
    IN  IF rendered.err THEN instance.name \o ".ctf.local" ELSE rendered.hostname

BuildIngress(instance, c) ==
    IF ~c.ingress
    THEN NoResource
    ELSE [ NoResource EXCEPT !.present = TRUE, !.kind = "Ingress",
                             !.name = IngressName(instance.name),
                             !.host = HostnameOf(instance, c),
                             !.paths =
                                (IF c.attackBox
                                 THEN << [ path |-> "/terminal(/|$)(.*)",
                                           service |-> AttackBoxServiceName(instance.name),
                                           port |-> 8080 ] >>
                                 ELSE << >>)
                                \o << [ path |-> "/",
                                        service |-> instance.name \o "-svc",
                                        port |-> 80 ] >> ]

\* Rule 1 of BuildNetworkPolicy: DNS, port 53 over UDP and TCP to kube-dns.
DNSRule ==
    [ to |-> { <<"namespace", "kubernetes.io/metadata.name", "kube-system">>,
               <<"pod", "k8s-app", "kube-dns">> },
      ports |-> { <<"UDP", 53>>, <<"TCP", 53>> },
      except |-> {} ]

\* Rule 2: the challenge pods of the same instance, on every port.
ChallengeRule(instance) ==
    [ to |-> { <<"pod", "ctf.io/instance", instance.name>>,
               <<"pod", "app", "challenge">> },
      ports |-> {},
      except |-> {} ]

\* Rule 3: the internet without the private ranges, on every port.
InternetRule ==
    [ to |-> { <<"ipBlock", "cidr", "0.0.0.0/0">> },
      ports |-> {},
      except |-> { "10.0.0.0/8", "172.16.0.0/12", "192.168.0.0/16" } ]

\* Variant: the DNS rule is added whatever AllowDNS says.
BuildNetworkPolicyAlwaysDNS(instance, c) ==
    IF ~c.attackBox
    THEN NoResource
    ELSE IF ~c.networkPolicy
         THEN NoResource
         ELSE [ NoResource EXCEPT
                  !.present = TRUE, !.kind = "NetworkPolicy",
                  !.name = NetworkPolicyName(instance.name),
                  !.selector = { <<"app", AttackBoxDeploymentName(instance.name)>> },
                  !.policyTypes = { "Egress" },
                  !.egress = << DNSRule >>
                             \o << ChallengeRule(instance) >>
                             \o (IF c.allowInternet THEN << InternetRule >> ELSE << >>) ]

BuildNetworkPolicy(instance, c) ==
    IF ~c.attackBox
    THEN NoResource
    ELSE IF ~c.networkPolicy
         THEN NoResource
         ELSE [ NoResource EXCEPT
                  !.present = TRUE, !.kind = "NetworkPolicy",
                  !.name = NetworkPolicyName(instance.name),
                  !.selector = { <<"app", AttackBoxDeploymentName(instance.name)>> },
                  !.policyTypes = { "Egress" },
                  !.egress = (IF c.allowDNS THEN << DNSRule >> ELSE << >>)
                             \o << ChallengeRule(instance) >>
                             \o (IF c.allowInternet THEN << InternetRule >> ELSE << >>) ]

\* GetIngressHostname: the hostname BuildIngress gives the rule.
GetIngressHostname(instance, c) ==
    IF ~c.ingress THEN "" ELSE HostnameOf(instance, c)

\* Connection string of the ingress branch of ensureIngress.
IngressConnectionInfo(hostname, c) ==
    IF c.attackBox
    THEN "Challenge: http://" \o hostname \o " Terminal: http://" \o hostname \o "/terminal"
    ELSE "http://" \o hostname

\* r.getNodeIP(): NodeIP and NODE_IP unset.
NodeIP == "localhost"

\* Variant: the hostname of the load balancer goes before its IP.
GetConnectionInfoHostnameFirst(service, nodeIP) ==
    IF ~service.present \/ service.port = 0
    THEN ""
    ELSE IF service.svcType = "NodePort"
         THEN IF service.nodePort > 0
              THEN "nc " \o nodeIP \o " " \o ToString(service.nodePort)
              ELSE ""
         ELSE IF service.svcType = "LoadBalancer"
              THEN LET host == IF service.lbHost # "" THEN service.lbHost
                               ELSE service.lbIP
                   IN  IF host # ""
                       THEN "nc " \o host \o " " \o ToString(service.port)
                       ELSE ""
              ELSE ""

\* builder.GetConnectionInfo: present = FALSE is the nil Service, port = 0
\* the Service without ports, lbIP and lbHost the first entry of
\* Status.LoadBalancer.Ingress (both empty when there is none).
GetConnectionInfo(service, nodeIP) ==
    IF ~service.present \/ service.port = 0
    THEN ""
    ELSE IF service.svcType = "NodePort"
         THEN IF service.nodePort > 0
              THEN "nc " \o nodeIP \o " " \o ToString(service.nodePort)
              ELSE ""
         ELSE IF service.svcType = "LoadBalancer"
              THEN LET host == IF service.lbIP # "" THEN service.lbIP
                               ELSE service.lbHost
                   IN  IF host # ""
                       THEN "nc " \o host \o " " \o ToString(service.port)
                       ELSE ""
              ELSE ""

\* flaggen.Generate with the default template: the flag rendered from the
\* next random component (the last value stands for every later draw).
Generate(n) == FlagValues[IF n < Len(FlagValues) THEN n + 1 ELSE Len(FlagValues)]

\* The k-th value crypto/rand hands out (hex of 16 random bytes), each one
\* fresh.
FreshRandom(k) == "r" \o ToString(k)

\* The random component of a pass that starts after n draws; the passes
\* draw from as many values as FlagValues has.
RandomString(n) ==
    FreshRandom(IF n < Len(FlagValues) THEN n + 1 ELSE Len(FlagValues))

\* Flag templates: the default one (empty), a custom one, one that
\* text/template cannot parse and one whose execution fails on a field
\* FlagContext does not have.
FlagTemplates == { "", "CTF-{{.RandomString}}", "{{.Invalid", "{{.Missing}}" }

\* The error of template.Parse or of Execute on the template, "" if none.
TemplateError(tmpl) ==
    CASE tmpl = "{{.Invalid" -> "failed to parse flag template"
      [] tmpl = "{{.Missing}}" -> "failed to execute flag template"
      [] OTHER -> ""

\* Generate on a random component: the default template for an empty one,
\* Parse and Execute, then the rendered text, or "" and an error. A
\* template without actions renders as itself.
RenderFlag(tmpl, randomStr) ==
    [ flag |-> CASE TemplateError(tmpl) # "" -> ""
                 [] tmpl = "" -> "FLAG{" \o randomStr \o "}"
                 [] tmpl = "CTF-{{.RandomString}}" -> "CTF-" \o randomStr
                 [] OTHER -> tmpl,
      err |-> TemplateError(tmpl) # "" ]

\* Variant: on a template error the text rendered so far is returned
\* without an error.
GenerateSilently(tmpl, n) ==
    [ RenderFlag(tmpl, RandomString(n)) EXCEPT !.err = FALSE ]

\* flaggen.Generate(tmpl, ...) of a pass that starts after n draws.
GenerateFrom(tmpl, n) == RenderFlag(tmpl, RandomString(n))

\* controllerutil.SetControllerReference(owner, obj, scheme)
SetControllerReference(owner, obj) ==
    [ obj EXCEPT !.ownerName = owner.name, !.ownerUID = owner.uid,
                 !.controller = TRUE ]

(***************************************************************************)
(* The cluster API.                                                        *)
(***************************************************************************)
\* What the API server stores on Create: a Service of an external type is
\* allocated its node port.
Admitted(obj) ==
    IF obj.kind = "Service" /\ obj.svcType \in {"NodePort", "LoadBalancer"}
    THEN [ obj EXCEPT !.nodePort = AllocatedNodePort ]
    ELSE obj

\* time.Now().After(instance.Spec.Until.Time), with Until possibly nil
Expired(instance, t) == instance.until # 0 /\ t > instance.until

\* The uids of the instances that exist.
LiveUIDs == { instances[n].uid : n \in InstanceNames } \ {0}

\* A transient failure can be injected into the call being made.
CanFail == failures < MaxFailures /\ ~frozen

\* Variant: the update also stores a cleared Spec.Until.
WithStatusClearingUntil(stored, l) ==
    [ stored EXCEPT !.until = 0,
                    !.phase = l.phase, !.ready = l.ready, !.flags = l.flags,
                    !.connectionInfo = l.connectionInfo,
                    !.deploymentName = l.deploymentName,
                    !.serviceName = l.serviceName,
                    !.flagValidated = l.flagValidated ]

\* The stored object after a status-subresource update from `l`: the status
\* comes from `l`, everything else stays as stored.
WithStatus(stored, l) ==
    [ stored EXCEPT !.phase = l.phase, !.ready = l.ready, !.flags = l.flags,
                    !.connectionInfo = l.connectionInfo,
                    !.deploymentName = l.deploymentName,
                    !.serviceName = l.serviceName,
                    !.flagValidated = l.flagValidated ]

\* Variant: the update is accepted whatever version was read.
UpdateAcceptedLastWriteWins == local.uid # 0 /\ instances[req].uid = local.uid

\* r.Status().Update is accepted only for the object version that was read.
UpdateAccepted == local.uid # 0 /\ instances[req].uid = local.uid /\ ~localStale

\* The status values an accepted update replaces (old by new), recorded
\* once no external change happens any more.
Observe(s, old, new) ==
    IF ~frozen
    THEN s
    ELSE [ s EXCEPT
             !.phase = IF new.phase # old.phase THEN @ \cup {old.phase} ELSE @,
             !.ready = IF new.ready # old.ready THEN @ \cup {old.ready} ELSE @,
             !.flags = IF new.flags # old.flags THEN @ \cup {old.flags} ELSE @,
             !.connectionInfo = IF new.connectionInfo # old.connectionInfo
                                THEN @ \cup {old.connectionInfo} ELSE @,
             !.deploymentName = IF new.deploymentName # old.deploymentName
                                THEN @ \cup {old.deploymentName} ELSE @,
             !.serviceName = IF new.serviceName # old.serviceName
                             THEN @ \cup {old.serviceName} ELSE @ ]

\* A watch event for the instance (or for a resource it owns) enqueues it.
Enqueue(q, name) == IF name \in InstanceNames THEN q \cup {name} ELSE q

(***************************************************************************)
(* Initial state: an empty namespace with one Challenge.                   *)
(***************************************************************************)
InitWith(configs, budget) ==
    /\ instances = [ n \in InstanceNames |-> NoInstance ]
    /\ challenge \in configs
    /\ environ = ""
    /\ calls = {}
    /\ challengeExists \in BOOLEAN
    /\ resources = [ k \in ResourceKeys |-> NoResource ]
    /\ now = 0
    /\ nextUid = 1
    /\ drawn = 0
    /\ queue = {}
    /\ failures = MaxFailures - budget
    /\ pc = "idle"
    /\ req = ""
    /\ local = NoInstance
    /\ localStale = FALSE
    /\ chal = ChallengeConfig(FALSE, FALSE, FALSE, "NodePort")
    /\ getErr = ""
    /\ result = NoResult
    /\ writes = {}
    /\ callFailed = FALSE
    /\ frozen = FALSE
    /\ seen = NoSeen

Init == InitWith(ChallengeConfigs, MaxFailures)

(***************************************************************************)
(* The environment: gateway (pkg/api), administrators, kubelet, garbage    *)
(* collector, clock.                                                       *)
(***************************************************************************)
\* The ChallengeInstance the API server stores on creation: empty status.
NewInstance(uid, n, until) ==
    [ NoInstance EXCEPT !.uid = uid, !.name = n,
                        !.challengeName = ChallengeName, !.until = until ]

\* Handler.CreateInstance, or a ChallengeInstance applied directly
\* (withExpiry = FALSE: Spec.Until left nil).
CreateInstance(n, withExpiry) ==
    /\ ~frozen
    /\ instances[n].uid = 0
    /\ nextUid <= MaxUid
    /\ instances' = [ instances EXCEPT ![n] =
          NewInstance(nextUid, n, IF withExpiry THEN now + TimeoutUnits ELSE 0) ]
    /\ nextUid' = nextUid + 1
    /\ queue' = Enqueue(queue, n)
    /\ localStale' = (localStale \/ n = req)
    /\ UNCHANGED << challenge, environ, calls, challengeExists, resources, now, drawn, failures,
                    pc, req, local, chal, getErr, result, writes, callFailed,
                    frozen, seen >>

\* Handler.DeleteInstance, or any other external deletion.
DeleteInstance(n) ==
    /\ ~frozen
    /\ instances[n].uid # 0
    /\ instances' = [ instances EXCEPT ![n] = NoInstance ]
    /\ queue' = Enqueue(queue, n)
    /\ localStale' = (localStale \/ n = req)
    /\ UNCHANGED << challenge, environ, calls, challengeExists, resources, now, nextUid, drawn,
                    failures, pc, req, local, chal, getErr, result, writes,
                    callFailed, frozen, seen >>

\* Handler.ValidateFlag with a submitted flag that is one of Status.Flags.
ValidateFlag(n, flag) ==
    /\ ~frozen
    /\ instances[n].uid # 0
    /\ \E i \in 1..Len(instances[n].flags) : instances[n].flags[i] = flag
    /\ ~instances[n].flagValidated
    /\ instances' = [ instances EXCEPT ![n].flagValidated = TRUE ]
    /\ queue' = Enqueue(queue, n)
    /\ localStale' = (localStale \/ n = req)
    /\ UNCHANGED << challenge, environ, calls, challengeExists, resources, now, nextUid, drawn,
                    failures, pc, req, local, chal, getErr, result, writes,
                    callFailed, frozen, seen >>

\* The Challenge is deleted out of band.
DeleteChallenge ==
    /\ ~frozen
    /\ challengeExists
    /\ challengeExists' = FALSE
    /\ UNCHANGED << instances, challenge, environ, calls, resources, now, nextUid, drawn, queue,
                    failures, passVars, histVars >>

\* The Challenge is (re)applied out of band.
ApplyChallenge ==
    /\ ~frozen
    /\ ~challengeExists
    /\ challengeExists' = TRUE
    /\ UNCHANGED << instances, challenge, environ, calls, resources, now, nextUid, drawn, queue,
                    failures, passVars, histVars >>

\* The kubelet reports the first ready replica of a primary Deployment (the
\* reconciler never reads the readiness of any other resource).
DeploymentReady(k) ==
    /\ ~frozen
    /\ resources[k].present
    /\ k = <<"Deployment", DeploymentName(resources[k].ownerName)>>
    /\ resources[k].readyReplicas = 0
    /\ resources' = [ resources EXCEPT ![k].readyReplicas = 1 ]
    /\ queue' = Enqueue(queue, resources[k].ownerName)
    /\ UNCHANGED << instances, challenge, environ, calls, challengeExists, now, nextUid, drawn,
                    failures, passVars, histVars >>

\* The cloud provider assigns the external address of a LoadBalancer Service.
AssignLoadBalancer(k) ==
    /\ ~frozen
    /\ resources[k].present
    /\ resources[k].svcType = "LoadBalancer"
    /\ resources[k].lbIP = ""
    /\ resources' = [ resources EXCEPT ![k].lbIP = "203.0.113.7" ]
    /\ queue' = Enqueue(queue, resources[k].ownerName)
    /\ UNCHANGED << instances, challenge, environ, calls, challengeExists, now, nextUid, drawn,
                    failures, passVars, histVars >>

\* Ownership-graph cascade: the resources whose controller owner no longer
\* exists are removed by the garbage collector.
CascadeDelete(uid) ==
    /\ ~frozen
    /\ uid \notin LiveUIDs
    /\ \E k \in ResourceKeys : resources[k].present /\ resources[k].ownerUID = uid
    /\ resources' = [ k \in ResourceKeys |->
                        IF resources[k].present /\ resources[k].ownerUID = uid
                        THEN NoResource ELSE resources[k] ]
    /\ UNCHANGED << instances, challenge, environ, calls, challengeExists, now, nextUid, drawn,
                    queue, failures, passVars, histVars >>

\* Time passes.  The clock is only advanced while some expiry lies ahead:
\* with no expiry pending, a later instant is the same state up to a shift
\* of every timestamp.
Tick ==
    /\ ~frozen
    /\ now < MaxTime
    /\ \/ \E n \in InstanceNames : instances[n].until >= now /\ instances[n].until # 0
       \/ local.until >= now /\ local.until # 0
    /\ now' = now + 1
    /\ UNCHANGED << instances, challenge, environ, calls, challengeExists, resources, nextUid, drawn,
                    queue, failures, passVars, histVars >>

\* At-least-once delivery: a request may be delivered again at any time.
Deliver(n) ==
    /\ n \notin queue
    /\ queue' = queue \cup {n}
    /\ UNCHANGED << storeVars, drawn, failures, passVars, histVars >>


(***************************************************************************)
(* Outcomes of the cluster-API calls a pass makes.                         *)
(***************************************************************************)
\* The pass returns (ctrl.Result{Requeue, RequeueAfter}, err).
Finish(err, requeue, requeueAfter) ==
    /\ pc' = "done"
    /\ result' = [ err |-> err, requeue |-> requeue, requeueAfter |-> requeueAfter ]

\* The call goes through without an error.
CallOK == failures' = failures /\ callFailed' = callFailed

\* The call fails with a transient error.
CallFails == CanFail /\ failures' = failures + 1 /\ callFailed' = TRUE

\* The call fails with an error the API returns for the state it found
\* (NotFound, AlreadyExists, Conflict).
CallRefused == failures' = failures /\ callFailed' = TRUE

\* r.Status().Update(ctx, instance) is accepted: the status is stored and
\* `instance` is refreshed from the response.
UpdateSucceeds ==
    /\ UpdateAccepted
    /\ instances' = [ instances EXCEPT ![req] = WithStatus(@, local) ]
    /\ local' = WithStatus(instances[req], local)
    /\ queue' = IF WithStatus(instances[req], local) # instances[req]
                THEN Enqueue(queue, req) ELSE queue
    /\ seen' = Observe(seen, instances[req], WithStatus(instances[req], local))
    /\ CallOK

\* r.Status().Update(ctx, instance) returns an error.
UpdateFails ==
    /\ \/ ~UpdateAccepted /\ CallRefused
       \/ CallFails
    /\ UNCHANGED << instances, local, queue, seen >>

\* r.Create(ctx, obj) stores obj.
CreateSucceeds(obj) ==
    /\ ~resources[<<obj.kind, obj.name>>].present
    /\ resources' = [ resources EXCEPT ![<<obj.kind, obj.name>>] = Admitted(obj) ]
    /\ queue' = Enqueue(queue, obj.ownerName)
    /\ seen' = IF frozen
               THEN [ seen EXCEPT !.created = @ \cup {<<obj.kind, obj.name>>},
                                  !.duplicate = @ \/ <<obj.kind, obj.name>> \in seen.created ]
               ELSE seen
    /\ CallOK

\* r.Create(ctx, obj) returns an error.
CreateFails(obj) ==
    /\ \/ resources[<<obj.kind, obj.name>>].present /\ CallRefused
       \/ CallFails
    /\ UNCHANGED << resources, queue, seen >>

\* r.Delete(ctx, instance): by name, without preconditions.
DeleteSucceeds ==
    /\ instances[req].uid # 0
    /\ instances' = [ instances EXCEPT ![req] = NoInstance ]
    /\ queue' = Enqueue(queue, req)
    /\ CallOK

DeleteFails ==
    /\ \/ instances[req].uid = 0 /\ CallRefused
       \/ CallFails
    /\ UNCHANGED << instances, queue >>

(***************************************************************************)
(* Reconcile                                                               *)
(***************************************************************************)
\* The work queue hands a request to the single worker.
StartPass(n) ==
    /\ pc = "idle"
    /\ n \in queue
    /\ queue' = queue \ {n}
    /\ pc' = "GetInstance"
    /\ req' = n
    /\ UNCHANGED << storeVars, drawn, failures, local, localStale, chal, getErr,
                    result, writes, callFailed, histVars >>

\* 1. Fetch the ChallengeInstance
GetInstance ==
    /\ pc = "GetInstance"
    /\ \/ /\ instances[req].uid # 0
          /\ local' = instances[req]
          /\ localStale' = FALSE
          /\ pc' = "AfterFetch"
          /\ CallOK
          /\ UNCHANGED result
       \/ /\ instances[req].uid = 0
          /\ Finish(FALSE, FALSE, FALSE)
          /\ CallOK
          /\ UNCHANGED << local, localStale >>
       \/ /\ CallFails
          /\ Finish(TRUE, FALSE, FALSE)
          /\ UNCHANGED << local, localStale >>
    /\ UNCHANGED << storeVars, drawn, queue, req, chal, getErr, writes, histVars >>

\* The r.Delete of steps 2 and 2b.
DeleteAndReturn ==
    /\ writes' = writes \cup {"Delete"}
    /\ \/ DeleteSucceeds /\ Finish(FALSE, FALSE, FALSE)
       \/ DeleteFails /\ Finish(TRUE, FALSE, FALSE)
    /\ UNCHANGED << challenge, environ, calls, challengeExists, resources, now, nextUid, drawn,
                    req, local, localStale, chal, getErr, histVars >>

\* 2. Check expiry - delete if expired
DeleteExpired ==
    /\ pc = "AfterFetch"
    /\ Expired(local, now)
    /\ DeleteAndReturn

\* Variant: a Failed instance is deleted like a validated one.
DeleteValidatedOrFailed ==
    /\ pc = "AfterFetch"
    /\ ~Expired(local, now)
    /\ local.flagValidated \/ local.phase = "Failed"
    /\ DeleteAndReturn

\* 2b. Check if flag was validated - delete instance
DeleteValidated ==
    /\ pc = "AfterFetch"
    /\ ~Expired(local, now)
    /\ local.flagValidated
    /\ DeleteAndReturn

\* Variant: the flag is generated on every pass.
NeedsFlagAlways(instance) == TRUE

\* 4. Generate flag if not already set: len(instance.Status.Flags) == 0
NeedsFlag(instance) == Len(instance.flags) = 0

\* Variant: the failure branch leaves the phase at Pending.
MarkPending(instance) == [ instance EXCEPT !.phase = "Pending" ]

\* instance.Status.Phase = "Failed"
MarkFailed(instance) == [ instance EXCEPT !.phase = "Failed" ]

\* 3. Fetch the Challenge template; 4. generate the flag if there is none
FetchChallenge ==
    /\ \/ /\ challengeExists
          /\ CallOK
          /\ chal' = challenge
          /\ getErr' = ""
          /\ IF NeedsFlag(local)
             THEN /\ drawn' = IF drawn < Len(FlagValues) THEN drawn + 1 ELSE drawn
                  /\ IF GenerateFrom(challenge.flagTemplate, drawn).err
                     THEN /\ local' = local
                          /\ Finish(TRUE, FALSE, FALSE)
                     ELSE /\ local' = [ local EXCEPT
                                 !.flags = << GenerateFrom(challenge.flagTemplate,
                                                           drawn).flag >>,
                                 !.phase = "Pending" ]
                          /\ pc' = "UpdateFlag"
                          /\ result' = result
             ELSE /\ local' = local
                  /\ drawn' = drawn
                  /\ pc' = "ensureDeployment"
                  /\ result' = result
       \/ /\ \/ ~challengeExists /\ CallRefused /\ getErr' = "NotFound"
             \/ CallFails /\ getErr' = "Transient"
          /\ local' = MarkFailed(local)
          /\ pc' = "UpdateFailed"
          /\ chal' = chal
          /\ drawn' = drawn
          /\ result' = result
    /\ UNCHANGED << storeVars, queue, req, localStale, writes, histVars >>

\* Variant: the Challenge is fetched before the expiry check.
GetChallengeBeforeExpiryCheck ==
    /\ pc = "AfterFetch"
    /\ ~local.flagValidated
    /\ FetchChallenge

\* Variant: the Challenge is fetched before the FlagValidated check.
GetChallengeBeforeValidatedCheck ==
    /\ pc = "AfterFetch"
    /\ ~Expired(local, now)
    /\ FetchChallenge

\* Steps 3 and 4 are reached only by an instance that is neither expired nor
\* validated.
GetChallenge ==
    /\ pc = "AfterFetch"
    /\ ~Expired(local, now)
    /\ ~local.flagValidated
    /\ FetchChallenge

\* r.Status().Update after the Challenge could not be fetched; its own error
\* is only logged and the Get error is returned.
UpdateFailed ==
    /\ pc = "UpdateFailed"
    /\ writes' = writes \cup {"StatusUpdate"}
    /\ UpdateSucceeds \/ UpdateFails
    /\ Finish(TRUE, FALSE, FALSE)
    /\ UNCHANGED << challenge, environ, calls, challengeExists, resources, now, nextUid, drawn, req,
                    localStale, chal, getErr, frozen >>

\* Variant: after persisting the generated flag the pass goes on to the
\* ensure steps.
UpdateFlagAndGoOn ==
    /\ pc = "UpdateFlag"
    /\ writes' = writes \cup {"StatusUpdate"}
    /\ \/ UpdateSucceeds /\ pc' = "ensureDeployment" /\ UNCHANGED result
       \/ UpdateFails /\ Finish(TRUE, FALSE, FALSE)
    /\ UNCHANGED << challenge, environ, calls, challengeExists, resources, now, nextUid, drawn, req,
                    localStale, chal, getErr, frozen >>

\* r.Status().Update persisting the generated flag, then Requeue: true
UpdateFlag ==
    /\ pc = "UpdateFlag"
    /\ writes' = writes \cup {"StatusUpdate"}
    /\ \/ UpdateSucceeds /\ Finish(FALSE, TRUE, FALSE)
       \/ UpdateFails /\ Finish(TRUE, FALSE, FALSE)
    /\ UNCHANGED << challenge, environ, calls, challengeExists, resources, now, nextUid, drawn, req,
                    localStale, chal, getErr, frozen >>


\* Key of a built object in the store.
KeyOf(obj) == <<obj.kind, obj.name>>

\* What the steps of a pass leave alone.
GetFrame == UNCHANGED << storeVars, drawn, queue, req, localStale, chal, writes, histVars >>

UpdateFrame ==
    UNCHANGED << challenge, environ, calls, challengeExists, resources, now, nextUid, drawn, req,
                 localStale, chal, getErr, frozen >>

EnsureFrame ==
    UNCHANGED << instances, challenge, environ, calls, challengeExists, now, nextUid, drawn, req,
                 localStale, chal, frozen >>

\* Variant: r.Get of obj succeeds and the live object is replaced by the
\* desired one.
FoundAndUpdated(obj) ==
    /\ resources[KeyOf(obj)].present
    /\ CallOK
    /\ resources' = [ resources EXCEPT ![KeyOf(obj)] = Admitted(obj) ]
    /\ UNCHANGED << queue, seen, writes >>

\* r.Get of obj finds it: nothing is created.
Found(obj) ==
    /\ resources[KeyOf(obj)].present
    /\ CallOK
    /\ UNCHANGED << resources, queue, seen, writes >>

\* r.Get of obj returns NotFound and r.Create stores obj.
Created(obj) ==
    /\ CreateSucceeds(obj)
    /\ writes' = writes \cup {"Create"}

\* r.Get fails with a transient error, or returns NotFound and r.Create fails.
GetOrCreateFails(obj) ==
    \/ CallFails /\ UNCHANGED << resources, queue, seen, writes >>
    \/ /\ ~resources[KeyOf(obj)].present
       /\ CreateFails(obj)
       /\ writes' = writes \cup {"Create"}

\* The desired objects of the pass, with the owner reference attached.
DesiredDeployment == SetControllerReference(local, BuildDeployment(local, chal))

\* Variant: the NetworkPolicy is created without the owner reference.
DesiredNetworkPolicyUnowned == BuildNetworkPolicy(local, chal)

\* Variant: the Service is created without the owner reference.
DesiredServiceUnowned == BuildService(local, chal)

DesiredService == SetControllerReference(local, BuildService(local, chal))

DesiredAttackBox == SetControllerReference(local, BuildAttackBoxDeployment(local, chal))

DesiredAttackBoxSvc == SetControllerReference(local, BuildAttackBoxService(local, chal))

DesiredIngress == SetControllerReference(local, BuildIngress(local, chal))

DesiredNetworkPolicy == SetControllerReference(local, BuildNetworkPolicy(local, chal))

\* ensureDeployment: build, set the owner reference, Get, Create if absent
\* and record the name in the in-memory status
EnsureDeployment ==
    /\ pc = "ensureDeployment"
    /\ \/ /\ Found(DesiredDeployment)
          /\ pc' = "ensureService"
          /\ UNCHANGED << local, result >>
       \/ /\ Created(DesiredDeployment)
          /\ local' = [ local EXCEPT !.deploymentName = DesiredDeployment.name ]
          /\ pc' = "UpdateDeploymentName"
          /\ UNCHANGED result
       \/ /\ GetOrCreateFails(DesiredDeployment)
          /\ Finish(TRUE, FALSE, FALSE)
          /\ UNCHANGED local
    /\ UNCHANGED getErr
    /\ EnsureFrame

\* ensureDeployment: persist Status.DeploymentName
UpdateDeploymentName ==
    /\ pc = "UpdateDeploymentName"
    /\ writes' = writes \cup {"StatusUpdate"}
    /\ \/ UpdateSucceeds /\ pc' = "ensureService" /\ UNCHANGED result
       \/ UpdateFails /\ Finish(TRUE, FALSE, FALSE)
    /\ UpdateFrame

\* ensureService: build, set the owner reference, Get, Create if absent;
\* when the Service exists, take the connection info from it
EnsureService ==
    /\ pc = "ensureService"
    /\ \/ /\ Found(DesiredService)
          /\ LET connInfo == GetConnectionInfo(resources[KeyOf(DesiredService)], NodeIP)
             IN  IF connInfo # "" /\ local.connectionInfo # connInfo
                 THEN /\ local' = [ local EXCEPT !.connectionInfo = connInfo ]
                      /\ pc' = "UpdateConnectionInfo"
                 ELSE /\ local' = local
                      /\ pc' = "ensureAttackBox"
          /\ UNCHANGED result
       \/ /\ Created(DesiredService)
          /\ local' = [ local EXCEPT !.serviceName = DesiredService.name ]
          /\ pc' = "UpdateServiceName"
          /\ UNCHANGED result
       \/ /\ GetOrCreateFails(DesiredService)
          /\ Finish(TRUE, FALSE, FALSE)
          /\ UNCHANGED local
    /\ UNCHANGED getErr
    /\ EnsureFrame

\* ensureService: persist Status.ServiceName
UpdateServiceName ==
    /\ pc = "UpdateServiceName"
    /\ writes' = writes \cup {"StatusUpdate"}
    /\ \/ UpdateSucceeds /\ pc' = "ensureAttackBox" /\ UNCHANGED result
       \/ UpdateFails /\ Finish(TRUE, FALSE, FALSE)
    /\ UpdateFrame

\* ensureService: persist the connection info read from the Service
UpdateConnectionInfo ==
    /\ pc = "UpdateConnectionInfo"
    /\ writes' = writes \cup {"StatusUpdate"}
    /\ \/ UpdateSucceeds /\ pc' = "ensureAttackBox" /\ UNCHANGED result
       \/ UpdateFails /\ Finish(TRUE, FALSE, FALSE)
    /\ UpdateFrame

\* An optional resource: nothing to do when the builder returns nil;
\* otherwise Get, and Create if absent.
EnsureOptional(obj, nextPc) ==
    /\ IF ~obj.present
       THEN /\ pc' = nextPc
            /\ CallOK
            /\ UNCHANGED << resources, queue, seen, writes, result >>
       ELSE \/ Found(obj) /\ pc' = nextPc /\ UNCHANGED result
            \/ Created(obj) /\ pc' = nextPc /\ UNCHANGED result
            \/ GetOrCreateFails(obj) /\ Finish(TRUE, FALSE, FALSE)
    /\ UNCHANGED << local, getErr >>
    /\ EnsureFrame

\* ensureAttackBox, Deployment part
EnsureAttackBox ==
    /\ pc = "ensureAttackBox"
    /\ EnsureOptional(DesiredAttackBox, "ensureAttackBoxSvc")

\* ensureAttackBox, Service part
EnsureAttackBoxSvc ==
    /\ pc = "ensureAttackBoxSvc"
    /\ EnsureOptional(DesiredAttackBoxSvc, "ensureIngress")

\* Variant: the ingress connection info is set on every pass.
ConnectionInfoAny(instance) == TRUE

\* ensureIngress: instance.Status.ConnectionInfo == ""
ConnectionInfoMissing(instance) == instance.connectionInfo = ""

\* ensureIngress after the Get (and the Create): set the connection info
\* when it is still empty; only otherwise look at the error of the Get.
IngressConnection(err) ==
    IF ConnectionInfoMissing(local)
    THEN LET hostname == GetIngressHostname(local, chal)
         IN  IF hostname # ""
             THEN /\ local' = [ local EXCEPT
                                  !.connectionInfo = IngressConnectionInfo(hostname, chal) ]
                  /\ pc' = "UpdateIngressConnection"
                  /\ UNCHANGED result
             ELSE /\ local' = local
                  /\ pc' = "ensureNetworkPolicy"
                  /\ UNCHANGED result
    ELSE IF err
         THEN Finish(TRUE, FALSE, FALSE) /\ local' = local
         ELSE pc' = "ensureNetworkPolicy" /\ local' = local /\ UNCHANGED result

\* ensureIngress: build; when requested, Get, Create if absent, then the
\* connection info
EnsureIngress ==
    /\ pc = "ensureIngress"
    /\ IF ~DesiredIngress.present
       THEN /\ pc' = "ensureNetworkPolicy"
            /\ CallOK
            /\ UNCHANGED << resources, queue, seen, writes, local, result, getErr >>
       ELSE \/ Found(DesiredIngress) /\ getErr' = "" /\ IngressConnection(FALSE)
            \/ Created(DesiredIngress) /\ getErr' = "" /\ IngressConnection(FALSE)
            \/ /\ CallFails
               /\ UNCHANGED << resources, queue, seen, writes >>
               /\ getErr' = "Transient"
               /\ IngressConnection(TRUE)
            \/ /\ ~resources[KeyOf(DesiredIngress)].present
               /\ CreateFails(DesiredIngress)
               /\ writes' = writes \cup {"Create"}
               /\ Finish(TRUE, FALSE, FALSE)
               /\ UNCHANGED << local, getErr >>
    /\ EnsureFrame

\* ensureIngress: first r.Status().Update of the connection info
UpdateIngressConnection ==
    /\ pc = "UpdateIngressConnection"
    /\ writes' = writes \cup {"StatusUpdate"}
    /\ \/ UpdateSucceeds /\ pc' = "UpdateIngressConnectionAgain" /\ UNCHANGED result
       \/ UpdateFails /\ Finish(TRUE, FALSE, FALSE)
    /\ UpdateFrame

\* ensureIngress: second r.Status().Update, whose error is only logged
UpdateIngressConnectionAgain ==
    /\ pc = "UpdateIngressConnectionAgain"
    /\ writes' = writes \cup {"StatusUpdate"}
    /\ UpdateSucceeds \/ UpdateFails
    /\ pc' = "ensureNetworkPolicy"
    /\ UNCHANGED result
    /\ UpdateFrame

\* ensureNetworkPolicy
EnsureNetworkPolicy ==
    /\ pc = "ensureNetworkPolicy"
    /\ EnsureOptional(DesiredNetworkPolicy, "checkAndUpdateReady")

\* Variant: the pass ends without asking to be run again.
PollResultNone == Finish(FALSE, FALSE, FALSE)

\* 10. Requeue to check expiry periodically: RequeueAfter 10 s, no error
PollResult == Finish(FALSE, FALSE, TRUE)

\* Variant: checkAndUpdateReady sets Running as soon as the Deployment named
\* in the status exists, whatever its ready replicas.
CheckAndUpdateReadyUnobserved ==
    /\ pc = "checkAndUpdateReady"
    /\ IF local.deploymentName = ""
       THEN PollResult /\ CallOK /\ UNCHANGED local
       ELSE LET k == <<"Deployment", local.deploymentName>>
            IN  \/ /\ resources[k].present
                   /\ CallOK
                   /\ IF local.phase # "Running" \/ ~local.ready
                      THEN /\ local' = [ local EXCEPT !.phase = "Running", !.ready = TRUE ]
                           /\ pc' = IF local.serviceName # ""
                                    THEN "GetReadyService" ELSE "UpdateRunning"
                           /\ UNCHANGED result
                      ELSE /\ PollResult
                           /\ UNCHANGED local
                \/ /\ \/ ~resources[k].present /\ CallRefused
                      \/ CallFails
                   /\ Finish(TRUE, FALSE, FALSE)
                   /\ UNCHANGED local
    /\ UNCHANGED getErr
    /\ GetFrame

\* Variant: checkAndUpdateReady follows the Deployment down as well, back to
\* Pending and not ready when it reports no ready replica.
CheckAndUpdateReadyTracking ==
    /\ pc = "checkAndUpdateReady"
    /\ IF local.deploymentName = ""
       THEN PollResult /\ CallOK /\ UNCHANGED local
       ELSE LET k == <<"Deployment", local.deploymentName>>
            IN  \/ /\ resources[k].present
                   /\ CallOK
                   /\ IF /\ resources[k].readyReplicas > 0
                         /\ (local.phase # "Running" \/ ~local.ready)
                      THEN /\ local' = [ local EXCEPT !.phase = "Running", !.ready = TRUE ]
                           /\ pc' = IF local.serviceName # ""
                                    THEN "GetReadyService" ELSE "UpdateRunning"
                           /\ UNCHANGED result
                      ELSE IF resources[k].readyReplicas = 0 /\ local.ready
                      THEN /\ local' = [ local EXCEPT !.phase = "Pending", !.ready = FALSE ]
                           /\ pc' = "UpdateRunning"
                           /\ UNCHANGED result
                      ELSE /\ PollResult
                           /\ UNCHANGED local
                \/ /\ \/ ~resources[k].present /\ CallRefused
                      \/ CallFails
                   /\ Finish(TRUE, FALSE, FALSE)
                   /\ UNCHANGED local
    /\ UNCHANGED getErr
    /\ GetFrame

\* checkAndUpdateReady: Get the Deployment named in the status
CheckAndUpdateReady ==
    /\ pc = "checkAndUpdateReady"
    /\ IF local.deploymentName = ""
       THEN PollResult /\ CallOK /\ UNCHANGED local
       ELSE LET k == <<"Deployment", local.deploymentName>>
            IN  \/ /\ resources[k].present
                   /\ CallOK
                   /\ IF /\ resources[k].readyReplicas > 0
                         /\ (local.phase # "Running" \/ ~local.ready)
                      THEN /\ local' = [ local EXCEPT !.phase = "Running", !.ready = TRUE ]
                           /\ pc' = IF local.serviceName # ""
                                    THEN "GetReadyService" ELSE "UpdateRunning"
                           /\ UNCHANGED result
                      ELSE /\ PollResult
                           /\ UNCHANGED local
                \/ /\ \/ ~resources[k].present /\ CallRefused
                      \/ CallFails
                   /\ Finish(TRUE, FALSE, FALSE)
                   /\ UNCHANGED local
    /\ UNCHANGED getErr
    /\ GetFrame

\* checkAndUpdateReady: refresh the connection info from the Service; a
\* failing Get is ignored
GetReadyService ==
    /\ pc = "GetReadyService"
    /\ LET k == <<"Service", local.serviceName>>
       IN  \/ /\ resources[k].present
              /\ CallOK
              /\ LET connInfo == GetConnectionInfo(resources[k], NodeIP)
                 IN  local' = IF connInfo # ""
                              THEN [ local EXCEPT !.connectionInfo = connInfo ]
                              ELSE local
           \/ /\ \/ ~resources[k].present /\ CallRefused
                 \/ CallFails
              /\ local' = local
    /\ pc' = "UpdateRunning"
    /\ UNCHANGED << result, getErr >>
    /\ GetFrame

\* checkAndUpdateReady: persist phase=Running, ready=true
UpdateRunning ==
    /\ pc = "UpdateRunning"
    /\ writes' = writes \cup {"StatusUpdate"}
    /\ \/ UpdateSucceeds /\ PollResult
       \/ UpdateFails /\ Finish(TRUE, FALSE, FALSE)
    /\ UpdateFrame

\* The pass returns to the work queue: an error, Requeue and RequeueAfter
\* all put the request back.
EndPass ==
    /\ pc = "done"
    /\ pc' = "idle"
    /\ queue' = IF result.err \/ result.requeue \/ result.requeueAfter
                THEN queue \cup {req} ELSE queue
    /\ seen' = [ seen EXCEPT !.quietPass = @ \/ (frozen /\ writes = {}) ]
    /\ req' = ""
    /\ local' = NoInstance
    /\ localStale' = FALSE
    /\ chal' = ChallengeConfig(FALSE, FALSE, FALSE, "NodePort")
    /\ getErr' = ""
    /\ result' = NoResult
    /\ writes' = {}
    /\ callFailed' = FALSE
    /\ UNCHANGED << storeVars, drawn, failures, frozen >>

Reconcile ==
    \/ GetInstance \/ DeleteExpired \/ DeleteValidated \/ GetChallenge
    \/ UpdateFailed \/ UpdateFlag
    \/ EnsureDeployment \/ UpdateDeploymentName
    \/ EnsureService \/ UpdateServiceName \/ UpdateConnectionInfo
    \/ EnsureAttackBox \/ EnsureAttackBoxSvc
    \/ EnsureIngress \/ UpdateIngressConnection \/ UpdateIngressConnectionAgain
    \/ EnsureNetworkPolicy
    \/ CheckAndUpdateReady \/ GetReadyService \/ UpdateRunning
    \/ EndPass

Next ==
    \/ \E n \in {MainName} : StartPass(n)
    \/ Reconcile
    \/ \E n \in {MainName} : \E withExpiry \in BOOLEAN : CreateInstance(n, withExpiry)
    \/ \E n \in {MainName} : DeleteInstance(n)
    \/ \E n \in {MainName} : \E i \in 1..Len(FlagValues) : ValidateFlag(n, FlagValues[i])
    \/ DeleteChallenge
    \/ ApplyChallenge
    \/ \E k \in ResourceKeys : DeploymentReady(k)
    \/ \E k \in ResourceKeys : AssignLoadBalancer(k)
    \/ \E uid \in 1..(nextUid - 1) : CascadeDelete(uid)
    \/ Tick
    \/ \E n \in {MainName} : Deliver(n)

Spec == Init /\ [][Next]_vars

(***************************************************************************)
(* Specification with quiescence: at some point between two passes the     *)
(* last external change has happened and only the reconciler (and          *)
(* redelivery of its requests) acts from then on.                          *)
(***************************************************************************)
Freeze ==
    /\ ~frozen
    /\ pc = "idle"
    /\ frozen' = TRUE
    /\ UNCHANGED << storeVars, drawn, queue, failures, passVars, seen >>

NextIdem == Next \/ Freeze

SpecIdem == Init /\ [][NextIdem]_vars

(***************************************************************************)
(* Specification with the scheduling the controller runtime and the        *)
(* garbage collector provide: the worker keeps executing the pass it       *)
(* holds, and the collector keeps processing owners that are gone.  The    *)
(* Challenge is one of two configurations.                                 *)
(***************************************************************************)
InitLive ==
    InitWith({ ChallengeConfig(TRUE, TRUE, TRUE, "NodePort"),
               ChallengeConfig(FALSE, FALSE, TRUE, "LoadBalancer") }, MaxFailures)

SpecLive ==
    /\ InitLive
    /\ [][Next]_vars
    /\ WF_vars(Reconcile)
    /\ \A uid \in 1..MaxUid : WF_vars(CascadeDelete(uid))

(***************************************************************************)
(* Specification with two instances whose names the gateway can produce    *)
(* for one challenge (sources "a" and "a-attackbox"), both already created,*)
(* neither with an expiry nor validated, the Challenge in place and no     *)
(* transient failure.                                                      *)
(***************************************************************************)
InitNames ==
    /\ instances = [ n \in InstanceNames |->
                       NewInstance(IF n = MainName THEN 1 ELSE 2, n, 0) ]
    /\ challenge \in { ChallengeConfig(TRUE, TRUE, TRUE, "NodePort"),
                       ChallengeConfig(TRUE, FALSE, FALSE, "LoadBalancer") }
    /\ environ = ""
    /\ calls = {}
    /\ challengeExists = TRUE
    /\ resources = [ k \in ResourceKeys |-> NoResource ]
    /\ now = 0
    /\ nextUid = 3
    /\ drawn = 0
    /\ queue = InstanceNames
    /\ failures = MaxFailures
    /\ pc = "idle"
    /\ req = ""
    /\ local = NoInstance
    /\ localStale = FALSE
    /\ chal = ChallengeConfig(FALSE, FALSE, FALSE, "NodePort")
    /\ getErr = ""
    /\ result = NoResult
    /\ writes = {}
    /\ callFailed = FALSE
    /\ frozen = FALSE
    /\ seen = NoSeen

\* The steps of Reconcile an instance without expiry and validation takes
\* while the Challenge exists.
ProvisioningPass ==
    \/ GetInstance \/ GetChallenge \/ UpdateFlag
    \/ EnsureDeployment \/ UpdateDeploymentName
    \/ EnsureService \/ UpdateServiceName \/ UpdateConnectionInfo
    \/ EnsureAttackBox \/ EnsureAttackBoxSvc
    \/ EnsureIngress \/ UpdateIngressConnection \/ UpdateIngressConnectionAgain
    \/ EnsureNetworkPolicy
    \/ CheckAndUpdateReady \/ GetReadyService \/ UpdateRunning
    \/ EndPass

NextNames ==
    \/ \E n \in InstanceNames : StartPass(n)
    \/ ProvisioningPass
    \/ \E n \in InstanceNames : DeleteInstance(n)
    \/ \E k \in ResourceKeys : DeploymentReady(k)
    \/ \E k \in ResourceKeys : AssignLoadBalancer(k)
    \/ \E uid \in 1..(nextUid - 1) : CascadeDelete(uid)

SpecNames == InitNames /\ [][NextNames]_vars

(***************************************************************************)
(* Properties.                                                             *)
(***************************************************************************)
\* The steps of the pass in flight change pc; no other action does.
PassStep == pc' # pc

\* C1 -- Expiry precedence: a pass holding a fetched instance whose
\* Spec.Until is set and past has written nothing so far, and its next step
\* is the Delete of the instance, which ends the pass; that step draws no
\* flag, creates or changes no resource and stores no status, whatever the
\* phase of the instance and whether or not the Challenge exists.
ExpiryPrecedence ==
    [][ (pc = "AfterFetch" /\ Expired(local, now)) =>
           /\ writes = {}
           /\ PassStep =>
                /\ pc' = "done"
                /\ writes' = {"Delete"}
                /\ resources' = resources
                /\ drawn' = drawn
                /\ \A n \in InstanceNames :
                      instances'[n] \in {instances[n], NoInstance} ]_vars

\* C1, witness: a pass has deleted an expired instance that never had a
\* status (never Pending, never Running) while the Challenge does not exist.
ExpiredDeletedUnprovisioned ==
    /\ pc = "done"
    /\ writes = {"Delete"}
    /\ Expired(local, now)
    /\ ~local.flagValidated
    /\ local.phase = ""
    /\ ~challengeExists
    /\ instances[req].uid = 0

\* C2 -- Objective-met precedence: a pass holding a fetched instance whose
\* Status.FlagValidated is true has written nothing so far, and its next
\* step is the Delete of the instance, which ends the pass without creating
\* a resource or storing a status, whether or not an expiry is set or past
\* and whether or not the Challenge exists.
ObjectiveMetPrecedence ==
    [][ (pc = "AfterFetch" /\ local.flagValidated) =>
           /\ writes = {}
           /\ PassStep =>
                /\ pc' = "done"
                /\ writes' = {"Delete"}
                /\ resources' = resources
                /\ drawn' = drawn
                /\ \A n \in InstanceNames :
                      instances'[n] \in {instances[n], NoInstance} ]_vars

\* C2, witness: a pass has deleted a validated instance that has no expiry
\* at all, while the Challenge does not exist.
ValidatedDeletedWithoutExpiry ==
    /\ pc = "done"
    /\ writes = {"Delete"}
    /\ local.flagValidated
    /\ local.until = 0
    /\ ~challengeExists
    /\ instances[req].uid = 0

\* C3 -- Flag immutability: no step changes the persisted Status.Flags of an
\* instance once it is non-empty, for as long as that instance (same uid)
\* exists.
FlagImmutability ==
    [][ \A n \in InstanceNames :
          ( /\ instances[n].uid # 0
            /\ instances[n].flags # <<>>
            /\ instances'[n].uid = instances[n].uid )
          => instances'[n].flags = instances[n].flags ]_vars

\* C3, witness: the only instance ever created is Running with the flag of
\* the second draw: a pass generated a flag and aborted before persisting
\* it, the retry generated and persisted another one, and later passes kept
\* that one.
FlagKeptAfterAbortedGeneration ==
    /\ nextUid = 2
    /\ instances[MainName].uid = 1
    /\ instances[MainName].flags = << Generate(1) >>
    /\ instances[MainName].phase = "Running"

NeverPartiallyProvisioned ==
    \A n \in InstanceNames :
        (instances[n].uid # 0 /\ instances[n].phase = "Failed") =>
            \A k \in KeysOf(n) :
                ~(resources[k].present /\ resources[k].ownerUID = instances[n].uid)

\* C6 -- A missing Template is not retried: the pass that set phase Failed
\* because the Challenge was not found returns no error and requests no
\* re-invocation.
MissingTemplateNotRetried ==
    (pc = "done" /\ getErr = "NotFound") =>
        /\ ~result.err
        /\ ~result.requeue
        /\ ~result.requeueAfter

\* C7 -- Idempotence: once no external change happens any more, no resource
\* is created a second time, no status field of the instance returns to a
\* value an earlier update replaced (flags, phase, ready, recorded names and
\* connection info), and once a pass ended without a write, no later pass
\* writes.
Idempotence ==
    frozen =>
        /\ ~seen.duplicate
        /\ \A n \in {MainName} :
              instances[n].uid # 0 =>
                 /\ instances[n].phase \notin seen.phase
                 /\ instances[n].ready \notin seen.ready
                 /\ instances[n].flags \notin seen.flags
                 /\ instances[n].connectionInfo \notin seen.connectionInfo
                 /\ instances[n].deploymentName \notin seen.deploymentName
                 /\ instances[n].serviceName \notin seen.serviceName
        /\ seen.quietPass => writes = {}

\* C7, witness: after the last external change the passes created a
\* resource and replaced the connection info, then a pass ended without a
\* write, and a further pass has run to its end.
QuietAfterConvergence ==
    /\ frozen
    /\ seen.quietPass
    /\ seen.created # {}
    /\ seen.connectionInfo # {}
    /\ pc = "done"
    /\ result.requeueAfter

\* C8 -- Ownership and cascade: every existing resource carries a controller
\* owner reference; a resource comes into existence only by a step of a
\* pass, under a name derived for the instance the pass holds and with the
\* controller owner reference to that instance; a resource ceases to exist
\* only by a step that is not the reconciler's, when its owner is gone, and
\* together with every other resource of that owner; the owner reference of
\* an existing resource never changes.
OwnershipAndCascade ==
    [][ \A k \in ResourceKeys :
          /\ resources[k].present =>
                resources[k].controller /\ resources[k].ownerUID # 0
          /\ (~resources[k].present /\ resources'[k].present) =>
                /\ PassStep
                /\ resources'[k].controller
                /\ local.uid # 0
                /\ resources'[k].ownerUID = local.uid
                /\ resources'[k].ownerName = local.name
                /\ k \in KeysOf(local.name)
          /\ (resources[k].present /\ ~resources'[k].present) =>
                /\ ~PassStep
                /\ writes' = writes
                /\ resources[k].ownerUID \notin LiveUIDs
                /\ \A j \in ResourceKeys :
                      ~(resources'[j].present
                          /\ resources'[j].ownerUID = resources[k].ownerUID)
          /\ (resources[k].present /\ resources'[k].present) =>
                /\ resources'[k].ownerUID = resources[k].ownerUID
                /\ resources'[k].ownerName = resources[k].ownerName ]_vars

\* C8, witness: the instance of a pass that created a resource was deleted,
\* the cascade ran, and no resource remains.
CascadeLeftNothing ==
    /\ "Create" \in writes
    /\ local.uid # 0
    /\ instances[req].uid = 0
    /\ \A k \in ResourceKeys : ~resources[k].present

\* A resource whose owner does not exist.
Orphaned(k) == resources[k].present /\ resources[k].ownerUID \notin LiveUIDs

\* Some resource's owner does not exist.
AnyOrphan == \E k \in ResourceKeys : Orphaned(k)

\* The instance of the pass in flight was deleted after the pass fetched it.
Cancelled ==
    /\ pc \notin {"idle", "GetInstance", "done"}
    /\ instances[req].uid # local.uid

\* C9 -- Cancellation during a pass: when the instance is deleted while a
\* pass for it is in flight, the pass runs to its end; every resource it
\* creates after the deletion carries the controller owner reference to the
\* deleted instance; and whenever some resource's owner is gone, a state
\* follows in which no resource with a missing owner is left, so that no
\* such resource stays forever.
CancellationIsClean ==
    /\ [][ \A k \in ResourceKeys :
             (Cancelled /\ ~resources[k].present /\ resources'[k].present) =>
                 /\ resources'[k].controller
                 /\ resources'[k].ownerUID = local.uid ]_vars
    /\ (Cancelled ~> pc = "done")
    /\ (AnyOrphan ~> ~AnyOrphan)

\* C9, witness: the pass has just created the Service although the
\* Deployment it ensured before is gone: the instance was deleted and the
\* cascade ran while the pass was in flight, and the Service was created
\* after that, owned by the deleted instance.
CreatedAfterCancellation ==
    /\ pc = "UpdateServiceName"
    /\ instances[req].uid = 0
    /\ ~resources[<<"Deployment", DeploymentName(local.name)>>].present
    /\ resources[<<"Service", ServiceName(local.name)>>].present
    /\ resources[<<"Service", ServiceName(local.name)>>].ownerUID = local.uid

\* C10 -- No resource is shared across instances: every existing resource
\* that bears a name derived for an instance name belongs to the instance
\* of that name.
NoSharedResource ==
    \A n \in InstanceNames : \A k \in KeysOf(n) :
        resources[k].present => resources[k].ownerName = n

\* C10, the case of the claim: the pass of one instance has gone through
\* ensureService having found, under the name of its own Service, a Service
\* that belongs to the other instance.
AdoptedForeignService ==
    /\ pc = "ensureAttackBox"
    /\ resources[<<"Service", ServiceName(local.name)>>].present
    /\ resources[<<"Service", ServiceName(local.name)>>].ownerName # local.name

(***************************************************************************)
(* Specification with the scheduling of the work queue as well: a request  *)
(* in the queue is handed to the worker, the worker keeps executing the    *)
(* pass it holds, and the collector keeps processing owners that are gone. *)
(* Calls fail at most MaxFailures times.                                   *)
(***************************************************************************)
SpecSched ==
    /\ InitLive
    /\ [][Next]_vars
    /\ WF_vars(\E n \in {MainName} : StartPass(n))
    /\ WF_vars(Reconcile)
    /\ \A uid \in 1..MaxUid : WF_vars(CascadeDelete(uid))

\* C11 -- Expiry is eventually enforced: a pass that ends without having
\* issued the delete and without having found the instance absent ends with
\* an error or a request to be run again; and an instance whose expiry has
\* passed is eventually gone.
ExpiryEventuallyEnforced ==
    /\ [](pc = "done" =>
            \/ "Delete" \in writes
            \/ local.uid = 0
            \/ result.err
            \/ result.requeue
            \/ result.requeueAfter)
    /\ \A n \in {MainName} :
          (instances[n].uid # 0 /\ Expired(instances[n], now))
              ~> (instances[n].uid = 0)

\* C11, witness: a pass has deleted an expired instance for which earlier
\* passes had persisted the flag and created the Deployment, and which was
\* never ready.
ExpiredDeletedPartlyProvisioned ==
    /\ pc = "done"
    /\ writes = {"Delete"}
    /\ Expired(local, now)
    /\ ~local.flagValidated
    /\ local.deploymentName # ""
    /\ ~local.ready
    /\ instances[req].uid = 0

(***************************************************************************)
(* Specification of an instance that is left to converge: the Challenge    *)
(* exists and stays, the instance has no expiry, is never validated and    *)
(* never deleted; calls fail at most MaxFailures times; the queue, the     *)
(* worker and the kubelet are scheduled fairly, so the Deployment, once    *)
(* created, reports a ready replica and keeps doing so.                    *)
(***************************************************************************)
InitConverge == InitLive /\ challengeExists

\* The steps of Reconcile such an instance takes.
ConvergingPass == ProvisioningPass \/ UpdateFailed

NextConverge ==
    \/ \E n \in {MainName} : StartPass(n)
    \/ ConvergingPass
    \/ \E n \in {MainName} : CreateInstance(n, FALSE)
    \/ \E k \in ResourceKeys : DeploymentReady(k)
    \/ \E k \in ResourceKeys : AssignLoadBalancer(k)
    \/ \E n \in {MainName} : Deliver(n)

SpecConverge ==
    /\ InitConverge
    /\ [][NextConverge]_vars
    /\ WF_vars(\E n \in {MainName} : StartPass(n))
    /\ WF_vars(ConvergingPass)
    /\ WF_vars(\E k \in ResourceKeys : DeploymentReady(k))

\* C12 -- Convergence to Running: an instance that exists eventually has
\* phase Running and ready = true persisted, whichever calls failed on the
\* way.
ConvergesToRunning ==
    \A n \in {MainName} :
        (instances[n].uid # 0)
            ~> (instances[n].phase = "Running" /\ instances[n].ready)

\* C12, the case of the claim: no call can fail any more, the Deployment of
\* the instance exists and reports a ready replica, and a pass in which no
\* call failed has ended asking to be run again, with Status.DeploymentName
\* still empty and the instance not Running.
StuckWithoutDeploymentName ==
    /\ pc = "done"
    /\ failures = MaxFailures
    /\ ~callFailed
    /\ result.requeueAfter
    /\ instances[req].uid = local.uid
    /\ local.deploymentName = ""
    /\ instances[req].phase # "Running"
    /\ resources[<<"Deployment", DeploymentName(req)>>].present
    /\ resources[<<"Deployment", DeploymentName(req)>>].readyReplicas > 0

\* C13 -- Transient errors do not corrupt status: once a fetch of the pass
\* in flight has failed with a transient error, no step of that pass changes
\* the persisted instance; this holds for the fetch of the Challenge and for
\* the fetch of the Ingress as for every other one.
TransientErrorsKeepStatus ==
    [][ (getErr = "Transient" /\ PassStep) => instances' = instances ]_vars

\* C13, the case of the claim: the Get of the Ingress failed with a
\* transient error and the pass went on to store the http connection info
\* of an Ingress it neither read nor created.
StatusWrittenAfterFailedFetch ==
    /\ pc = "UpdateIngressConnectionAgain"
    /\ getErr = "Transient"
    /\ ~resources[<<"Ingress", IngressName(local.name)>>].present
    /\ instances[req].uid = local.uid
    /\ instances[req].connectionInfo = local.connectionInfo
    /\ local.connectionInfo # ""

\* C14 -- Transient errors are never swallowed: a pass in which some
\* cluster-API call failed (a Get other than one answered NotFound before a
\* Create, a Create, a Delete or a status update) ends returning an error.
FailedCallsReturnError ==
    (pc = "done" /\ callFailed) => result.err

\* C14, the case of the claim: a pass whose Get of the Ingress failed with a
\* transient error has ended without an error, asking only for the periodic
\* re-invocation.
IngressErrorSwallowed ==
    /\ pc = "done"
    /\ getErr = "Transient"
    /\ callFailed
    /\ ~result.err
    /\ result.requeueAfter

\* The place of a step of the pass in the order of the ensure steps
\* (0: not an ensure step; 7: the readiness check that follows them).
EnsureRank(p) ==
    CASE p \in {"ensureDeployment", "UpdateDeploymentName"} -> 1
      [] p \in {"ensureService", "UpdateServiceName", "UpdateConnectionInfo"} -> 2
      [] p = "ensureAttackBox" -> 3
      [] p = "ensureAttackBoxSvc" -> 4
      [] p \in {"ensureIngress", "UpdateIngressConnection",
                "UpdateIngressConnectionAgain"} -> 5
      [] p = "ensureNetworkPolicy" -> 6
      [] p = "checkAndUpdateReady" -> 7
      [] OTHER -> 0

\* The pass enters the ensure steps at the Deployment and goes through them
\* in the order of their ranks without leaving one out.
EnsureStepsInOrder ==
    /\ (EnsureRank(pc) = 0 /\ EnsureRank(pc') > 0) => pc' = "ensureDeployment"
    /\ (EnsureRank(pc) > 0 /\ EnsureRank(pc') > 0) =>
          /\ EnsureRank(pc') >= EnsureRank(pc)
          /\ EnsureRank(pc') <= EnsureRank(pc) + 1

\* The pass goes on from the step `at` only with obj, when requested, in
\* existence: found by the Get or stored by the Create of that step.
EnsuredBy(at, obj) ==
    (pc = at /\ pc' # "done" /\ obj.present) => resources'[KeyOf(obj)].present

\* C15 -- Ensure order: the ensure steps of a pass run in the order
\* Deployment, Service, attack-box Deployment, attack-box Service, Ingress,
\* NetworkPolicy, and the pass goes on from a step only when the resource of
\* that step, if requested, was found or created by it; so a resource is
\* created only after every requested resource earlier in the order was
\* found or created in the same pass.
EnsureOrder ==
    [][ PassStep =>
          /\ EnsureStepsInOrder
          /\ EnsuredBy("ensureDeployment", DesiredDeployment)
          /\ EnsuredBy("ensureService", DesiredService)
          /\ EnsuredBy("ensureAttackBox", DesiredAttackBox)
          /\ EnsuredBy("ensureAttackBoxSvc", DesiredAttackBoxSvc)
          /\ EnsuredBy("ensureIngress", DesiredIngress)
          /\ EnsuredBy("ensureNetworkPolicy", DesiredNetworkPolicy) ]_vars

\* C15, the case of the claim: the pass has created the NetworkPolicy after
\* the Get of the requested Ingress failed, with no Ingress in existence.
PolicyCreatedWithoutIngress ==
    /\ pc = "checkAndUpdateReady"
    /\ getErr = "Transient"
    /\ DesiredIngress.present
    /\ ~resources[KeyOf(DesiredIngress)].present
    /\ DesiredNetworkPolicy.present
    /\ resources[KeyOf(DesiredNetworkPolicy)].present
    /\ "Create" \in writes
    /\ instances[req].uid = local.uid

\* s begins with p.
HasPrefix(s, p) == Len(s) >= Len(p) /\ SubSeq(s, 1, Len(p)) = p

\* The shape of a connection info: "nc" for the string GetConnectionInfo
\* derives from a Service, "http" for the strings ensureIngress derives from
\* the Ingress hostname.
Shape(s) ==
    IF s = "" THEN ""
    ELSE IF HasPrefix(s, "nc ") THEN "nc"
    ELSE IF HasPrefix(s, "http://") \/ HasPrefix(s, "Challenge: http://") THEN "http"
    ELSE "other"

\* C16 -- Connection info is write-once: once the persisted connection info
\* of an instance is non-empty, no step replaces it with a value of another
\* shape for as long as that instance exists: "nc host port" never replaces
\* "http://host", nor the reverse.
ConnectionInfoWriteOnce ==
    [][ \A n \in InstanceNames :
          ( /\ instances[n].uid # 0
            /\ instances'[n].uid = instances[n].uid
            /\ instances[n].connectionInfo # "" )
          => Shape(instances'[n].connectionInfo) = Shape(instances[n].connectionInfo) ]_vars

\* C16, the case of the claim: the persisted connection info is the http
\* string of the Ingress, and the pass is about to store the nc string it
\* read from the Service in its place.
EndpointInfoReplacesRoutingInfo ==
    /\ pc = "UpdateConnectionInfo"
    /\ instances[req].uid = local.uid
    /\ Shape(instances[req].connectionInfo) = "http"
    /\ Shape(local.connectionInfo) = "nc"
    /\ UpdateAccepted

\* C17 -- Flag generation is its own pass: a pass draws a flag only when
\* the Challenge was fetched and the instance it holds has none; it then
\* holds exactly one flag and phase Pending and has written nothing; its
\* next step is the status update, which ends the pass without creating a
\* resource and, when it succeeds, persists that flag with phase Pending and
\* returns Requeue; a step of a pass creates a resource only while the pass
\* holds a flag that it read from the persisted instance.
FlagGenerationIsItsOwnPass ==
    [][ PassStep =>
          /\ pc' = "UpdateFlag" =>
                /\ challengeExists
                /\ local.flags = <<>>
                /\ Len(local'.flags) = 1
                /\ local'.phase = "Pending"
                /\ writes' = {}
                /\ resources' = resources
          /\ pc = "UpdateFlag" =>
                /\ pc' = "done"
                /\ writes' = {"StatusUpdate"}
                /\ resources' = resources
                /\ drawn' = drawn
                /\ result'.err => instances' = instances
                /\ ~result'.err =>
                      /\ result'.requeue
                      /\ instances'[req].flags = local.flags
                      /\ instances'[req].phase = "Pending"
          /\ resources' # resources =>
                /\ pc \notin {"AfterFetch", "UpdateFlag"}
                /\ Len(local.flags) = 1
                /\ instances[req].uid = local.uid =>
                      instances[req].flags = local.flags ]_vars

\* C17, witness: the pass that generated the flag has ended with the flag
\* and phase Pending persisted, Requeue requested and no resource in
\* existence.
FlagPassEnded ==
    /\ pc = "done"
    /\ result.requeue
    /\ ~result.err
    /\ writes = {"StatusUpdate"}
    /\ instances[req].uid = local.uid
    /\ Len(instances[req].flags) = 1
    /\ instances[req].phase = "Pending"
    /\ \A k \in ResourceKeys : ~resources[k].present

\* C18 -- The reconciler deletes an instance only for expiry or validation:
\* a pass issues the Delete only as the step that follows the fetch, and
\* only when the fetched instance has an expiry that is past or has
\* Status.FlagValidated set; an instance ceases to exist by a step of a
\* pass only through that Delete and, being the one the pass fetched, is
\* itself expired or validated; a pass that fetched an instance without
\* expiry and not validated removes no instance, whatever the phase.
DeletesOnlyExpiredOrValidated ==
    [][ PassStep =>
          /\ ("Delete" \in writes' /\ "Delete" \notin writes) =>
                /\ pc = "AfterFetch"
                /\ writes = {}
                /\ local.uid # 0
                /\ Expired(local, now) \/ local.flagValidated
          /\ \A n \in InstanceNames :
                (instances[n].uid # 0 /\ instances'[n].uid = 0) =>
                    /\ n = req
                    /\ writes' = {"Delete"}
                    /\ instances[n].uid = local.uid =>
                          Expired(instances[n], now) \/ instances[n].flagValidated
          /\ (local.uid # 0 /\ local.until = 0 /\ ~local.flagValidated) =>
                \A n \in InstanceNames : instances'[n].uid = instances[n].uid ]_vars

\* C18, witness: a pass that fetched the instance with phase Failed, no
\* expiry and no validation has ended, and the instance is still there.
FailedInstanceKept ==
    /\ pc = "done"
    /\ local.uid # 0
    /\ local.phase = "Failed"
    /\ local.until = 0
    /\ ~local.flagValidated
    /\ local.flags # <<>>
    /\ "Delete" \notin writes
    /\ instances[req].uid = local.uid

(***************************************************************************)
(* Specification of an instance whose Challenge is revised while the       *)
(* instance is provisioned: as SpecConverge without its fairness, and with *)
(* a new revision of the Challenge applied at any moment.                  *)
(***************************************************************************)
\* A new revision of the Challenge is applied out of band (kubectl, ArgoCD);
\* the reconciler does not watch Challenges.
ReviseChallenge ==
    /\ ~frozen
    /\ challengeExists
    /\ challenge' \in ChallengeConfigs \ {challenge}
    /\ UNCHANGED << instances, environ, calls, challengeExists, resources, now,
                    nextUid, drawn, queue, failures, passVars, histVars >>

NextRevise == NextConverge \/ ReviseChallenge

SpecRevise == InitConverge /\ [][NextRevise]_vars

CreatedNamesRecorded ==
    (pc = "done" /\ ~result.err /\ local.uid # 0 /\ instances[req].uid = local.uid) =>
        /\ ( /\ resources[<<"Deployment", DeploymentName(req)>>].present
             /\ resources[<<"Deployment", DeploymentName(req)>>].ownerUID = local.uid )
           => instances[req].deploymentName = DeploymentName(req)
        /\ ( /\ resources[<<"Service", ServiceName(req)>>].present
             /\ resources[<<"Service", ServiceName(req)>>].ownerUID = local.uid )
           => instances[req].serviceName = ServiceName(req)

\* C20, the case of the claim: a pass in which no call failed has ended
\* without an error, the Service of the instance exists, and
\* Status.ServiceName is empty while Status.DeploymentName is recorded.
ServiceNameNotRecorded ==
    /\ pc = "done"
    /\ ~result.err
    /\ ~callFailed
    /\ instances[req].uid = local.uid
    /\ local.uid # 0
    /\ resources[<<"Service", ServiceName(req)>>].present
    /\ resources[<<"Service", ServiceName(req)>>].ownerUID = local.uid
    /\ instances[req].serviceName = ""
    /\ instances[req].deploymentName = DeploymentName(req)

\* C21 -- Running only on observed readiness: a pass sets phase Running and
\* ready in memory only in checkAndUpdateReady, having read the Deployment
\* named in the status it fetched with a ready replica; the persisted phase
\* becomes Running, or ready becomes true, only by the status update that
\* follows in that pass; and an instance that is Running or ready has its
\* Deployment in existence with a ready replica reported.
RunningOnlyOnObservedReadiness ==
    [][ /\ ( /\ PassStep
             /\ local.uid # 0
             /\ \/ local'.phase = "Running" /\ local.phase # "Running"
                \/ local'.ready /\ ~local.ready ) =>
               /\ pc = "checkAndUpdateReady"
               /\ local.deploymentName = DeploymentName(local.name)
               /\ resources[<<"Deployment", local.deploymentName>>].present
               /\ resources[<<"Deployment", local.deploymentName>>].readyReplicas > 0
               /\ local'.phase = "Running" /\ local'.ready
        /\ \A n \in InstanceNames :
              ( /\ instances'[n].uid # 0
                /\ \/ instances'[n].phase = "Running" /\ instances[n].phase # "Running"
                   \/ instances'[n].ready /\ ~instances[n].ready ) =>
                  /\ pc = "UpdateRunning"
                  /\ n = req
                  /\ instances'[n].phase = "Running" /\ instances'[n].ready
        /\ \A n \in InstanceNames :
              ( /\ instances'[n].uid # 0
                /\ instances'[n].phase = "Running" \/ instances'[n].ready ) =>
                  /\ resources'[<<"Deployment", DeploymentName(n)>>].present
                  /\ resources'[<<"Deployment", DeploymentName(n)>>].ownerUID
                        = instances'[n].uid
                  /\ resources'[<<"Deployment", DeploymentName(n)>>].readyReplicas > 0
      ]_vars

\* C21, witness: checkAndUpdateReady observed the ready replica and the pass
\* has persisted phase Running and ready for an instance that was Pending.
BecameRunning ==
    /\ pc = "done"
    /\ result.requeueAfter
    /\ "StatusUpdate" \in writes
    /\ instances[req].uid = local.uid
    /\ instances[req].phase = "Running"
    /\ instances[req].ready
    /\ resources[<<"Deployment", DeploymentName(req)>>].readyReplicas > 0

\* C22 -- Frame of the reconciler's writes: no step of a pass changes the
\* Challenge or creates an instance; a step of a pass changes a stored
\* instance only as a status update or as the Delete of the instance of the
\* pass, and an instance that stays keeps its identity and its spec
\* (Challenge reference and expiry).
ReconcilerWritesFrame ==
    [][ PassStep =>
          /\ challenge' = challenge
          /\ challengeExists' = challengeExists
          /\ \A n \in InstanceNames :
                /\ instances[n].uid = 0 => instances'[n] = instances[n]
                /\ instances'[n] # instances[n] =>
                      /\ n = req
                      /\ \/ instances'[n] = NoInstance /\ "Delete" \in writes'
                         \/ /\ "StatusUpdate" \in writes'
                            /\ instances'[n].uid = instances[n].uid
                            /\ instances'[n].name = instances[n].name
                            /\ instances'[n].challengeName = instances[n].challengeName
                            /\ instances'[n].until = instances[n].until ]_vars

\* C22, witness: a pass has stored phase Running for an instance that has an
\* expiry, and the expiry and the Challenge reference are what the gateway
\* gave it.
StatusStoredSpecKept ==
    /\ pc = "done"
    /\ "StatusUpdate" \in writes
    /\ instances[req].uid = local.uid
    /\ instances[req].phase = "Running"
    /\ instances[req].until = TimeoutUnits
    /\ instances[req].challengeName = ChallengeName

(***************************************************************************)
(* Specification of the builders at work: one instance, without expiry,    *)
(* of a Challenge drawn from every combination of the options the builders *)
(* read; the passes provision it and no call fails.                        *)
(***************************************************************************)
InitBuildIn(configs, envs) ==
    /\ \E n \in InstanceNames :
          /\ instances = [ m \in InstanceNames |->
                             IF m = n THEN NewInstance(1, n, 0) ELSE NoInstance ]
          /\ queue = {n}
    /\ challenge \in configs
    /\ environ \in envs
    /\ calls = {}
    /\ challengeExists = TRUE
    /\ resources = [ k \in ResourceKeys |-> NoResource ]
    /\ now = 0
    /\ nextUid = 2
    /\ drawn = 0
    /\ failures = MaxFailures
    /\ pc = "idle"
    /\ req = ""
    /\ local = NoInstance
    /\ localStale = FALSE
    /\ chal = ChallengeConfig(FALSE, FALSE, FALSE, "NodePort")
    /\ getErr = ""
    /\ result = NoResult
    /\ writes = {}
    /\ callFailed = FALSE
    /\ frozen = FALSE
    /\ seen = NoSeen

InitBuildWith(configs) == InitBuildIn(configs, { "" })

InitBuild == InitBuildWith(AllChallengeConfigs)

NextBuild ==
    \/ \E n \in InstanceNames : StartPass(n)
    \/ ProvisioningPass
    \/ \E k \in ResourceKeys : DeploymentReady(k)
    \/ \E k \in ResourceKeys : AssignLoadBalancer(k)

SpecBuild == InitBuild /\ [][NextBuild]_vars

\* The rules of a policy, as a set.
RulesOf(np) == { np.egress[i] : i \in 1..Len(np.egress) }

\* The pass has gone through every ensure step.
Provisioned(n) == pc = "checkAndUpdateReady" /\ local.name = n

IngressOnlyWhenRouted ==
    \A n \in InstanceNames :
        resources[<<"Ingress", IngressName(n)>>].present
            => challenge.exposeType = "Ingress"

\* C24, the case of the claim: the Ingress of an instance exists, created by
\* the pass in flight, and the exposeType of the Challenge is NodePort.
IngressCreatedForNodePort ==
    /\ pc = "ensureNetworkPolicy"
    /\ "Create" \in writes
    /\ chal.exposeType = "NodePort"
    /\ resources[<<"Ingress", IngressName(local.name)>>].present
    /\ resources[<<"Ingress", IngressName(local.name)>>].ownerUID = local.uid

\* The Service type the spec assigns to an exposure mode.
EndpointTypeOf(exposeType) ==
    CASE exposeType = "NodePort" -> "NodePort"
      [] exposeType = "LoadBalancer" -> "LoadBalancer"
      [] exposeType = "Ingress" -> "ClusterIP"

\* C25 -- Endpoint type follows the exposure mode: the Service built for an
\* instance is of type NodePort for exposeType NodePort, LoadBalancer for
\* LoadBalancer and ClusterIP for Ingress; in every mode its one port is the
\* port of the Challenge and it selects the pods by the instance label.
EndpointTypeFollowsMode ==
    \A n \in InstanceNames :
        LET s == resources[<<"Service", ServiceName(n)>>]
        IN  (instances[n].uid # 0 /\ s.present /\ s.ownerName = n) =>
               /\ s.svcType = EndpointTypeOf(challenge.exposeType)
               /\ s.port = challenge.port
               /\ s.selector = { <<"ctf.io/instance", n>> }

\* C25, the case of the claim: the Service of an instance of a Challenge
\* with exposeType Ingress exists, has the port of the Challenge and the
\* instance label as selector, and is of type NodePort with a node port
\* allocated.
NodePortServiceForRoutedMode ==
    \E n \in InstanceNames :
        LET s == resources[<<"Service", ServiceName(n)>>]
        IN  /\ challenge.exposeType = "Ingress"
            /\ instances[n].uid # 0
            /\ s.present
            /\ s.ownerName = n
            /\ s.svcType = "NodePort"
            /\ s.nodePort = AllocatedNodePort
            /\ s.port = challenge.port
            /\ s.selector = { <<"ctf.io/instance", n>> }

(***************************************************************************)
(* Specification of the builders at work on Challenges with every flag     *)
(* template: the default one, a custom one and two that fail.              *)
(***************************************************************************)
InitFlag ==
    InitBuildWith({ [ c EXCEPT !.flagTemplate = tmpl ] :
                      c \in { ChallengeConfig(TRUE, TRUE, TRUE, "NodePort"),
                              ChallengeConfig(FALSE, FALSE, TRUE, "LoadBalancer") },
                      tmpl \in FlagTemplates })

SpecFlag == InitFlag /\ [][NextBuild]_vars

\* The flags Generate can render from the template, one per random
\* component.
Renderings(tmpl) ==
    { "FLAG{" \o r \o "}" : r \in { "r1", "r2" } }
        \cup { "CTF-" \o r : r \in { "r1", "r2" } }

\* C26 -- Flag template errors fail loudly: when the flag template of the
\* Challenge cannot be parsed or executed, Generate returns an error and the
\* empty string, every pass that fetched the instance and the Challenge ends
\* with an error and without a write, no flag is ever persisted and no
\* resource ever created; and a persisted flag is never empty: it is a
\* complete rendering of the template of the Challenge.
FlagTemplateErrorsFailLoudly ==
    /\ \A n \in InstanceNames : \A i \in 1..Len(instances[n].flags) :
          /\ instances[n].flags[i] # ""
          /\ TemplateError(challenge.flagTemplate) = ""
          /\ instances[n].flags[i] \in Renderings(challenge.flagTemplate)
          /\ challenge.flagTemplate = "" <=> HasPrefix(instances[n].flags[i], "FLAG{")
    /\ TemplateError(challenge.flagTemplate) # "" =>
          /\ \A k \in 0..Len(FlagValues) :
                /\ GenerateFrom(challenge.flagTemplate, k).err
                /\ GenerateFrom(challenge.flagTemplate, k).flag = ""
          /\ \A n \in InstanceNames : instances[n].flags = <<>>
          /\ \A k \in ResourceKeys : ~resources[k].present
          /\ local.flags = <<>>
          /\ writes = {}
          /\ (pc = "done" /\ local.uid # 0) => result.err

\* C26, witness: a pass for an instance of a Challenge whose flag template
\* does not parse has ended with an error, for the second time, with
\* nothing persisted and nothing created.
TemplateErrorReturned ==
    /\ pc = "done"
    /\ challenge.flagTemplate = "{{.Invalid"
    /\ result.err
    /\ drawn = 2
    /\ local.uid # 0
    /\ instances[req].flags = <<>>
    /\ instances[req].phase = ""
    /\ \A k \in ResourceKeys : ~resources[k].present

(***************************************************************************)
(* Specification of the builders at work on Challenges with every host     *)
(* template, in a process with and without DEFAULT_HOST_TEMPLATE.          *)
(***************************************************************************)
InitHost ==
    InitBuildIn({ [ c EXCEPT !.hostTemplate = tmpl ] :
                    c \in { ChallengeConfig(TRUE, TRUE, TRUE, "NodePort"),
                            ChallengeConfig(FALSE, FALSE, TRUE, "LoadBalancer") },
                    tmpl \in HostTemplates },
                Environs)

SpecHost == InitHost /\ [][NextBuild]_vars

\* The rendering of the host template of the Challenge for an instance.
RenderedHost(n) ==
    renderHostTemplate(HostTemplateOf(challenge), HostContext(instances[n]))

\* C27 -- Hostname template errors are surfaced: when the host template of
\* the routing rule does not parse or does not render, the pass that builds
\* the rule ends with an error and does not go on to the next step, and
\* every stored routing rule and every persisted routing connection-info
\* carries the hostname rendered from the template, never another one.
HostnameErrorsSurfaced ==
    /\ \A n \in InstanceNames :
          resources[<<"Ingress", IngressName(n)>>].present =>
             /\ ~RenderedHost(n).err
             /\ resources[<<"Ingress", IngressName(n)>>].host = RenderedHost(n).hostname
    /\ \A n \in InstanceNames :
          (instances[n].uid # 0 /\ Shape(instances[n].connectionInfo) = "http") =>
             /\ ~RenderedHost(n).err
             /\ instances[n].connectionInfo =
                   IngressConnectionInfo(RenderedHost(n).hostname, challenge)
    /\ (pc \in { "ensureNetworkPolicy", "checkAndUpdateReady" } /\ chal.ingress) =>
          ~renderHostTemplate(HostTemplateOf(chal), HostContext(local)).err

\* C27, witness: the host template of the Challenge does not parse, the
\* pass has ended without an error, the routing rule is stored with the
\* fallback hostname and the connection-info is made from it.
FallbackHostnameUsed ==
    /\ pc = "done"
    /\ ~result.err
    /\ local.uid # 0
    /\ challenge.hostTemplate = "{{.InstanceName"
    /\ RenderedHost(req).err
    /\ resources[<<"Ingress", IngressName(req)>>].present
    /\ resources[<<"Ingress", IngressName(req)>>].host = req \o ".ctf.local"
    /\ instances[req].connectionInfo = "http://" \o req \o ".ctf.local"

(***************************************************************************)
(* The functions of pkg/builder called on their own: no pass is in flight, *)
(* the cluster is empty, and each call is recorded with its arguments and  *)
(* its result.                                                             *)
(***************************************************************************)
MaxCalls == 2

InitPure(envs) ==
    /\ instances = [ n \in InstanceNames |-> NoInstance ]
    /\ challenge = ChallengeConfig(FALSE, FALSE, FALSE, "NodePort")
    /\ environ \in envs
    /\ calls = {}
    /\ challengeExists = FALSE
    /\ resources = [ k \in ResourceKeys |-> NoResource ]
    /\ now = 0
    /\ nextUid = 1
    /\ drawn = 0
    /\ queue = {}
    /\ failures = MaxFailures
    /\ pc = "idle"
    /\ req = ""
    /\ local = NoInstance
    /\ localStale = FALSE
    /\ chal = ChallengeConfig(FALSE, FALSE, FALSE, "NodePort")
    /\ getErr = ""
    /\ result = NoResult
    /\ writes = {}
    /\ callFailed = FALSE
    /\ frozen = FALSE
    /\ seen = NoSeen

PureFrame ==
    UNCHANGED << instances, challenge, challengeExists, resources, now, nextUid,
                 queue, failures, passVars, histVars >>

\* The six builders.
Builders ==
    { "BuildDeployment", "BuildService", "BuildAttackBoxDeployment",
      "BuildAttackBoxService", "BuildIngress", "BuildNetworkPolicy" }

Build(builder, instance, c) ==
    CASE builder = "BuildDeployment" -> BuildDeployment(instance, c)
      [] builder = "BuildService" -> BuildService(instance, c)
      [] builder = "BuildAttackBoxDeployment" -> BuildAttackBoxDeployment(instance, c)
      [] builder = "BuildAttackBoxService" -> BuildAttackBoxService(instance, c)
      [] builder = "BuildIngress" -> BuildIngress(instance, c)
      [] builder = "BuildNetworkPolicy" -> BuildNetworkPolicy(instance, c)

\* Templates the builders are called on: with and without a host template
\* of their own.
BuilderConfigs ==
    { [ ChallengeConfig(TRUE, TRUE, TRUE, "NodePort") EXCEPT !.hostTemplate = tmpl ] :
        tmpl \in { "", "{{.InstanceName}}.chall.example" } }
      \cup { ChallengeConfig(FALSE, FALSE, TRUE, "NodePort") }

\* One call of a builder.
CallBuilder ==
    /\ Cardinality(calls) < MaxCalls
    /\ \E builder \in Builders, n \in InstanceNames, c \in BuilderConfigs :
          LET instance == NewInstance(1, n, 0)
          IN  calls' = calls \cup { [ builder |-> builder, instance |-> instance,
                                      template |-> c,
                                      desired |-> Build(builder, instance, c) ] }
    /\ UNCHANGED << environ, drawn >>
    /\ PureFrame

\* The operator is deployed again with another DEFAULT_HOST_TEMPLATE
\* (config map of the manager, deploy/README).
RestartOperator ==
    /\ environ' \in Environs \ { environ }
    /\ UNCHANGED << calls, drawn >>
    /\ PureFrame

NextBuilders == CallBuilder \/ RestartOperator

InitBuilders == InitPure(Environs)

SpecBuilders == InitBuilders /\ [][NextBuilders]_vars

\* C28 -- Builder determinism: for each of the six builders, two calls with
\* the same Instance and the same Template give the same desired state,
\* whatever else the process or its environment holds.
BuilderDeterminism ==
    \A a \in calls, b \in calls :
       (a.builder = b.builder /\ a.instance = b.instance /\ a.template = b.template)
          => a.desired = b.desired

\* C28, witness: BuildIngress was called twice on the same instance and the
\* same Template, which has no host template of its own, and gave two
\* routing rules with different hostnames.
IngressDependsOnEnvironment ==
    \E a \in calls, b \in calls :
       /\ a.builder = "BuildIngress" /\ b.builder = "BuildIngress"
       /\ a.instance = b.instance /\ a.template = b.template
       /\ a.template.hostTemplate = ""
       /\ a.desired.host = "ctf.a." \o SourceID \o "." \o ChallengeID \o ".devleo.local"
       /\ b.desired.host = "a.env.example"

(***************************************************************************)
(* Generate and GenerateMultiple called on their own, every call drawing   *)
(* fresh random components.                                                *)
(***************************************************************************)
MaxCount == 3
MaxDrawn == 4

\* The templates of the calls: those of the passes and one that renders
\* no random component.
GenerateTemplates == FlagTemplates \cup { "FLAG{static}" }

\* GenerateMultiple(tmpl, ..., count) after `first` draws: count flags, one
\* for count <= 0, or nil and the error of the first Generate that fails.
GenerateMultiple(tmpl, count, first) ==
    LET n == IF count <= 0 THEN 1 ELSE count
        generated == [ i \in 1..n |-> RenderFlag(tmpl, FreshRandom(first + i)) ]
    IN  IF generated[1].err
        THEN [ flags |-> << >>, err |-> TRUE, draws |-> 1 ]
        ELSE [ flags |-> [ i \in 1..n |-> generated[i].flag ], err |-> FALSE,
               draws |-> n ]

InitGenerate == InitPure({ "" })

\* One call of Generate.
CallGenerate ==
    /\ Cardinality(calls) < MaxCalls
    /\ drawn < MaxDrawn
    /\ \E tmpl \in GenerateTemplates :
          LET out == RenderFlag(tmpl, FreshRandom(drawn + 1))
          IN  calls' = calls \cup { [ fn |-> "Generate", tmpl |-> tmpl, count |-> 1,
                                      at |-> drawn, flags |-> << out.flag >>,
                                      err |-> out.err ] }
    /\ drawn' = drawn + 1
    /\ UNCHANGED environ
    /\ PureFrame

\* One call of GenerateMultiple.
CallGenerateMultiple ==
    /\ Cardinality(calls) < MaxCalls
    /\ \E tmpl \in GenerateTemplates, count \in -1..MaxCount :
          LET out == GenerateMultiple(tmpl, count, drawn)
          IN  /\ drawn + out.draws <= MaxDrawn
              /\ calls' = calls \cup { [ fn |-> "GenerateMultiple", tmpl |-> tmpl,
                                         count |-> count, at |-> drawn,
                                         flags |-> out.flags, err |-> out.err ] }
              /\ drawn' = drawn + out.draws
    /\ UNCHANGED environ
    /\ PureFrame

NextGenerate == CallGenerate \/ CallGenerateMultiple

SpecGenerate == InitGenerate /\ [][NextGenerate]_vars

\* Flags of the calls made for one template.
FlagsOf(call) == { call.flags[i] : i \in 1..Len(call.flags) }

\* C29 -- Flag uniqueness: the flags generated for the same instance, source
\* and template, each invocation drawing a fresh random component, are
\* pairwise distinct, within one GenerateMultiple and across calls; and a
\* GenerateMultiple that succeeds returns exactly count flags for
\* count >= 1 and exactly one for count <= 0.
FlagUniqueness ==
    /\ \A a \in calls :
          ~a.err =>
             /\ Len(a.flags) = IF a.count >= 1 THEN a.count ELSE 1
             /\ \A i, j \in 1..Len(a.flags) : i # j => a.flags[i] # a.flags[j]
    /\ \A a \in calls, b \in calls :
          (a # b /\ a.tmpl = b.tmpl /\ ~a.err /\ ~b.err)
             => FlagsOf(a) \cap FlagsOf(b) = {}

\* C29, witness: GenerateMultiple returned two flags for a template that
\* renders no random component, and the two are the same string.
SameFlagTwice ==
    \E a \in calls :
       /\ a.fn = "GenerateMultiple"
       /\ a.tmpl = "FLAG{static}"
       /\ a.count = 2
       /\ ~a.err
       /\ a.flags = << "FLAG{static}", "FLAG{static}" >>

\* The same holds on every template that renders the random component.
FlagUniquenessWithRandom ==
    /\ \A a \in calls :
          (~a.err /\ a.tmpl # "FLAG{static}") =>
             /\ Len(a.flags) = IF a.count >= 1 THEN a.count ELSE 1
             /\ \A i, j \in 1..Len(a.flags) : i # j => a.flags[i] # a.flags[j]
    /\ \A a \in calls :
          ~a.err => Len(a.flags) = IF a.count >= 1 THEN a.count ELSE 1
    /\ \A a \in calls, b \in calls :
          (a # b /\ a.tmpl = b.tmpl /\ ~a.err /\ ~b.err /\ a.tmpl # "FLAG{static}")
             => FlagsOf(a) \cap FlagsOf(b) = {}

(***************************************************************************)
(* GetConnectionInfo called on its own, on every endpoint.                 *)
(***************************************************************************)
\* The Services GetConnectionInfo is called on: nil or not, with or
\* without ports, of each type, the node port and the load balancer
\* assigned or not.
Endpoints ==
    { [ NoResource EXCEPT !.present = present, !.kind = "Service",
                          !.svcType = svcType, !.port = port,
                          !.nodePort = nodePort, !.lbIP = lbIP, !.lbHost = lbHost ] :
        present \in BOOLEAN, svcType \in { "NodePort", "LoadBalancer", "ClusterIP" },
        port \in { 0, ChallengePort }, nodePort \in { 0, AllocatedNodePort },
        lbIP \in { "", "10.0.0.50" }, lbHost \in { "", "lb.example.com" } }

NodeIPs == { NodeIP, "192.168.1.100" }

MaxResolved == 1

InitResolver == InitPure({ "" })

CallGetConnectionInfo ==
    /\ Cardinality(calls) < MaxResolved
    /\ \E service \in Endpoints, nodeIP \in NodeIPs :
          calls' = calls \cup { [ service |-> service, nodeIP |-> nodeIP,
                                  info |-> GetConnectionInfo(service, nodeIP) ] }
    /\ UNCHANGED << environ, drawn >>
    /\ PureFrame

NextResolver == CallGetConnectionInfo

SpecResolver == InitResolver /\ [][NextResolver]_vars

\* The endpoints the resolver has no connection info for.
Unresolved(service) ==
    \/ ~service.present
    \/ service.port = 0
    \/ service.svcType = "NodePort" /\ service.nodePort = 0
    \/ service.svcType = "LoadBalancer" /\ service.lbIP = "" /\ service.lbHost = ""

\* C30 -- Connection-info resolver: GetConnectionInfo returns the empty
\* string for a nil endpoint, an endpoint without ports, a node-port
\* endpoint whose port is not assigned and a load-balancer endpoint with no
\* IP and no hostname; otherwise "nc <nodeIP> <node port>" in node-port mode
\* and "nc <IP, else hostname> <service port>" in load-balancer mode.
ConnectionInfoResolver ==
    \A call \in calls :
       /\ Unresolved(call.service) => call.info = ""
       /\ (~Unresolved(call.service) /\ call.service.svcType = "NodePort") =>
             call.info = "nc " \o call.nodeIP \o " " \o ToString(call.service.nodePort)
       /\ (~Unresolved(call.service) /\ call.service.svcType = "LoadBalancer") =>
             /\ call.service.lbIP # "" =>
                   call.info = "nc " \o call.service.lbIP \o " "
                                  \o ToString(call.service.port)
             /\ call.service.lbIP = "" =>
                   call.info = "nc " \o call.service.lbHost \o " "
                                  \o ToString(call.service.port)

\* C30, witness: the resolver gave the IP of a load balancer that has an IP
\* and a hostname, with the port of the Service.
ResolvedByIP ==
    \E call \in calls :
       /\ call.service.present /\ call.service.svcType = "LoadBalancer"
       /\ call.service.lbIP = "10.0.0.50" /\ call.service.lbHost = "lb.example.com"
       /\ call.service.nodePort = AllocatedNodePort
       /\ call.info = "nc 10.0.0.50 " \o ToString(ChallengePort)

(***************************************************************************)
(* The gateway (pkg/api Handler) at work beside the reconciler: one         *)
(* instance, every cluster call of the passes succeeds, and each response  *)
(* of the gateway is recorded.                                             *)
(***************************************************************************)
\* Flags a client submits: none, the first flag and another one.
Submissions == { "", FlagValues[1], FlagValues[2] }

\* Variant: any submitted flag is taken for a correct one.
ValidateFlagCodeUnchecked(n, flag) ==
    IF flag = "" THEN 400
    ELSE IF instances[n].uid = 0 THEN 404
    ELSE 200

\* Handler.ValidateFlag, HTTP status of the response: 400 for an empty
\* flag, 404 when the instance is not found, 403 when the flag is none of
\* Status.Flags, else 200.
ValidateFlagCode(n, flag) ==
    IF flag = "" THEN 400
    ELSE IF instances[n].uid = 0 THEN 404
    ELSE IF \A i \in 1..Len(instances[n].flags) : instances[n].flags[i] # flag THEN 403
    ELSE 200

GatewayFrame ==
    UNCHANGED << challenge, environ, challengeExists, resources, now, nextUid,
                 drawn, failures, pc, req, local, chal, getErr, result, writes,
                 callFailed, frozen, seen >>

\* Handler.ValidateFlag: the whole handler, with the Status().Update of
\* FlagValidated accepted (200) or refused for a conflicting write (500).
SubmitFlag(n, flag) ==
    /\ \/ /\ ValidateFlagCode(n, flag) = 200
          /\ instances' = [ instances EXCEPT ![n].flagValidated = TRUE ]
          /\ queue' = Enqueue(queue, n)
          /\ localStale' = (localStale \/ n = req)
          /\ calls' = calls \cup { [ fn |-> "ValidateFlag", name |-> n,
                                     flag |-> flag, code |-> 200 ] }
       \/ /\ ValidateFlagCode(n, flag) = 200
          /\ pc # "idle" /\ req = n
          /\ calls' = calls \cup { [ fn |-> "ValidateFlag", name |-> n,
                                     flag |-> flag, code |-> 500 ] }
          /\ UNCHANGED << instances, queue, localStale >>
       \/ /\ ValidateFlagCode(n, flag) # 200
          /\ calls' = calls \cup { [ fn |-> "ValidateFlag", name |-> n,
                                     flag |-> flag,
                                     code |-> ValidateFlagCode(n, flag) ] }
          /\ UNCHANGED << instances, queue, localStale >>
    /\ GatewayFrame

InitGateway ==
    /\ InitBuildWith({ ChallengeConfig(FALSE, FALSE, FALSE, "NodePort"),
                       ChallengeConfig(TRUE, TRUE, TRUE, "LoadBalancer") })
    /\ instances[MainName].uid # 0

NextValidate ==
    \/ \E n \in {MainName} : StartPass(n)
    \/ ProvisioningPass
    \/ DeleteValidated
    \/ \E n \in {MainName} : \E flag \in Submissions : SubmitFlag(n, flag)
    \/ \E k \in ResourceKeys : DeploymentReady(k)
    \/ \E k \in ResourceKeys : AssignLoadBalancer(k)
    \/ \E uid \in 1..(nextUid - 1) : CascadeDelete(uid)

SpecValidate == InitGateway /\ [][NextValidate]_vars

\* A correct submission for instance n has been answered with 200.
CorrectSubmission(n, flags) ==
    \E c \in calls :
       /\ c.fn = "ValidateFlag" /\ c.name = n /\ c.code = 200
       /\ c.flag # ""
       /\ \E i \in 1..Len(flags) : flags[i] = c.flag

\* C31 -- Objective-met is set only by a correct flag: the FlagValidated of
\* an instance becomes true only in a step that answers 200 to a submitted
\* flag equal to one of its persisted flags; a submission answered otherwise
\* (empty, not matching, no flag yet) leaves every instance and resource as
\* it was; and an instance is deleted by the FlagValidated check only after
\* a correct submission.
ObjectiveMetOnlyByCorrectFlag ==
    /\ [][ \A n \in InstanceNames :
              (instances'[n].flagValidated /\ ~instances[n].flagValidated) =>
                 /\ instances[n].flags # << >>
                 /\ \E c \in calls' \ calls :
                       /\ c.name = n /\ c.code = 200 /\ c.flag # ""
                       /\ \E i \in 1..Len(instances[n].flags) :
                             instances[n].flags[i] = c.flag ]_vars
    /\ [][ (\E c \in calls' \ calls : c.code # 200) =>
              (instances' = instances /\ resources' = resources /\ queue' = queue) ]_vars
    /\ [][ (pc = "AfterFetch" /\ ~Expired(local, now)
            /\ instances[req].uid # 0 /\ instances'[req].uid = 0) =>
              CorrectSubmission(req, local.flags) ]_vars
    /\ [] (\A n \in InstanceNames :
              instances[n].flagValidated => CorrectSubmission(n, instances[n].flags))

\* C31, witness: the instance was deleted by the FlagValidated check after
\* an empty, a wrong and the correct flag had been submitted, the wrong one
\* also before any flag was persisted.
DeletedAfterCorrectFlag ==
    /\ pc = "done"
    /\ local.flagValidated
    /\ instances[req].uid = 0
    /\ "Delete" \in writes
    /\ \E c \in calls : c.code = 400
    /\ \E c \in calls : c.code = 403 /\ c.flag = FlagValues[2]
    /\ \E c \in calls : c.code = 403 /\ c.flag = FlagValues[1]
    /\ \E c \in calls : c.code = 200 /\ c.flag = FlagValues[1]

(***************************************************************************)
(* Renewal beside the reconciler: one instance with an expiry, the clock   *)
(* running, and Handler.RenewInstance extending the expiry at any time.    *)
(***************************************************************************)
\* Handler.RenewInstance: Get the instance, Spec.Until = now + timeout,
\* client.Update.
RenewInstance(n) ==
    /\ instances[n].uid # 0
    /\ instances[n].until # now + TimeoutUnits
    /\ instances' = [ instances EXCEPT ![n].until = now + TimeoutUnits ]
    /\ queue' = Enqueue(queue, n)
    /\ localStale' = (localStale \/ n = req)
    /\ UNCHANGED calls
    /\ GatewayFrame

InitRenew ==
    /\ instances = [ m \in InstanceNames |->
                       IF m = MainName THEN NewInstance(1, m, TimeoutUnits)
                       ELSE NoInstance ]
    /\ queue = { MainName }
    /\ challenge \in { ChallengeConfig(FALSE, FALSE, FALSE, "NodePort"),
                       ChallengeConfig(TRUE, TRUE, TRUE, "LoadBalancer") }
    /\ environ = ""
    /\ calls = {}
    /\ challengeExists = TRUE
    /\ resources = [ k \in ResourceKeys |-> NoResource ]
    /\ now = 0
    /\ nextUid = 2
    /\ drawn = 0
    /\ failures = MaxFailures
    /\ pc = "idle"
    /\ req = ""
    /\ local = NoInstance
    /\ localStale = FALSE
    /\ chal = ChallengeConfig(FALSE, FALSE, FALSE, "NodePort")
    /\ getErr = ""
    /\ result = NoResult
    /\ writes = {}
    /\ callFailed = FALSE
    /\ frozen = FALSE
    /\ seen = NoSeen

NextRenew ==
    \/ \E n \in {MainName} : StartPass(n)
    \/ ProvisioningPass
    \/ DeleteExpired
    \/ \E n \in {MainName} : RenewInstance(n)
    \/ Tick
    \/ \E k \in ResourceKeys : DeploymentReady(k)
    \/ \E k \in ResourceKeys : AssignLoadBalancer(k)
    \/ \E uid \in 1..(nextUid - 1) : CascadeDelete(uid)

SpecRenew == InitRenew /\ [][NextRenew]_vars

\* C32 -- Renewal versus expiry deletion: at the moment a delete of the
\* reconciler takes effect, the stored expiry of the instance is past or its
\* FlagValidated is true, also when RenewInstance extended the expiry while
\* the pass was in flight.
DeleteOnlyWhenStoredExpiryPast ==
    [][ (pc = "AfterFetch" /\ instances[req].uid # 0 /\ instances'[req].uid = 0) =>
           (Expired(instances[req], now) \/ instances[req].flagValidated) ]_vars

\* C32, witness: a pass fetched the instance after its expiry, the gateway
\* then renewed it, and the pass is about to delete it although the stored
\* expiry lies ahead.
RenewedBeforeDelete ==
    /\ pc = "AfterFetch"
    /\ Expired(local, now)
    /\ instances[req].uid = local.uid
    /\ instances[req].until = now + TimeoutUnits
    /\ ~Expired(instances[req], now)
    /\ ~instances[req].flagValidated

\* C33 -- Readiness implies Running: in every reachable state an instance
\* that is ready has the phase Running; it is never ready and Pending or
\* Failed, also after its Challenge could no longer be fetched once it was
\* Running.
ReadyImpliesRunning ==
    \A n \in InstanceNames :
       (instances[n].uid # 0 /\ instances[n].ready) => instances[n].phase = "Running"

\* C33, witness: the Challenge is gone, and the stored instance is Failed
\* and still ready.
FailedAndReady ==
    \E n \in InstanceNames :
       /\ instances[n].uid # 0
       /\ ~challengeExists
       /\ instances[n].phase = "Failed"
       /\ instances[n].ready

\* The primary Deployment of instance n.
PrimaryKey(n) == << "Deployment", DeploymentName(n) >>

\* C34 -- No workload without its flag: a step of the reconciler that
\* creates the primary Deployment of an instance does so for an instance
\* with a persisted flag and gives it that first flag as FLAG; and in every
\* reachable state an existing primary Deployment carries the first flag
\* stored in the instance that owns it.
WorkloadCarriesFlag ==
    /\ [][ \A n \in InstanceNames :
              (resources'[PrimaryKey(n)].present /\ ~resources[PrimaryKey(n)].present) =>
                 /\ req = n
                 /\ local.flags # << >>
                 /\ instances[n].uid = local.uid => instances[n].flags = local.flags
                 /\ resources'[PrimaryKey(n)].ownerUID = local.uid
                 /\ resources'[PrimaryKey(n)].flagEnv = local.flags[1]
                 /\ resources'[PrimaryKey(n)].flagEnv # "" ]_vars
    /\ [] (\A n \in InstanceNames :
              (resources[PrimaryKey(n)].present /\ instances[n].uid # 0
               /\ resources[PrimaryKey(n)].ownerUID = instances[n].uid) =>
                 /\ instances[n].flags # << >>
                 /\ resources[PrimaryKey(n)].flagEnv = instances[n].flags[1])

\* C34, witness: the primary Deployment of a live instance exists, created
\* by a pass that went through a failed call, with the instance's flag.
WorkloadWithFlag ==
    \E n \in InstanceNames :
       /\ instances[n].uid # 0
       /\ resources[PrimaryKey(n)].present
       /\ resources[PrimaryKey(n)].ownerUID = instances[n].uid
       /\ resources[PrimaryKey(n)].flagEnv = FlagValues[1]
       /\ instances[n].flags = << FlagValues[1] >>
       /\ failures > 0
       /\ instances[n].phase = "Running"

\* A label selector matches the pods that carry every one of its labels.
Selects(selector, podLabels) == selector # {} /\ selector \subseteq podLabels

\* C35 -- The primary endpoint selects only primary pods: for every instance
\* and Template, the selector of the Service built by BuildService matches
\* the pod labels of the Deployment built by BuildDeployment, and matches
\* neither the pod labels of the Deployment built by BuildAttackBoxDeployment
\* for the same instance nor the pods of another instance.
PrimaryEndpointSelectsPrimaryPods ==
    \A s \in calls, w \in calls :
       (s.builder = "BuildService" /\ w.desired.present /\ w.template = s.template) =>
          /\ (w.builder = "BuildDeployment" /\ w.instance = s.instance) =>
                Selects(s.desired.selector, w.desired.podLabels)
          /\ (w.builder = "BuildAttackBoxDeployment" /\ w.instance = s.instance) =>
                ~Selects(s.desired.selector, w.desired.podLabels)
          /\ (w.builder \in { "BuildDeployment", "BuildAttackBoxDeployment" }
              /\ w.instance # s.instance) =>
                ~Selects(s.desired.selector, w.desired.podLabels)

\* C35, witness: BuildService and BuildAttackBoxDeployment were called for
\* the same instance and Template, and the selector of the Service matches
\* the pod labels of the attack box.
ServiceSelectsAttackBox ==
    \E s \in calls, w \in calls :
       /\ s.builder = "BuildService" /\ w.builder = "BuildAttackBoxDeployment"
       /\ s.instance = w.instance /\ s.template = w.template
       /\ w.desired.present
       /\ s.desired.selector = { <<"ctf.io/instance", s.instance.name>> }
       /\ Selects(s.desired.selector, w.desired.podLabels)

(***************************************************************************)
(* The builders of the routing rule and of its two backends, called on     *)
(* Templates with a routing rule, with and without an attack box, on the   *)
(* ports a Challenge can name.                                             *)
(***************************************************************************)
RoutedConfigs ==
    { [ ChallengeConfig(ab, FALSE, TRUE, "NodePort") EXCEPT !.port = port ] :
        ab \in BOOLEAN, port \in { 80, ChallengePort } }

RoutingBuilders == { "BuildService", "BuildAttackBoxService", "BuildIngress" }

\* One call of BuildIngress, BuildService or BuildAttackBoxService.
CallRoutingBuilder ==
    /\ Cardinality(calls) < MaxCalls
    /\ \E builder \in RoutingBuilders, n \in InstanceNames, c \in RoutedConfigs :
          LET instance == NewInstance(1, n, 0)
          IN  calls' = calls \cup { [ builder |-> builder, instance |-> instance,
                                      template |-> c,
                                      desired |-> Build(builder, instance, c) ] }
    /\ UNCHANGED << environ, drawn >>
    /\ PureFrame

InitRouting == InitPure({ "" })

NextRouting == CallRoutingBuilder

SpecRouting == InitRouting /\ [][NextRouting]_vars

\* The paths of a routing rule that send to the given prefix.
PathsAt(ingress, prefix) ==
    { i \in 1..Len(ingress.paths) :
        IF prefix = "/" THEN ingress.paths[i].path = "/"
        ELSE HasPrefix(ingress.paths[i].path, prefix) }

\* C36 -- The routing rule targets ports its backends expose: for every
\* Template with a routing rule, the "/" path of the rule built by
\* BuildIngress names the Service built by BuildService and a port that
\* Service exposes; the "/terminal" path is there exactly when the attack
\* box is enabled, comes first, and names the Service built by
\* BuildAttackBoxService and a port it exposes.
RoutingTargetsExposedPorts ==
    \A r \in calls :
       r.builder = "BuildIngress" =>
          /\ r.desired.present
          /\ PathsAt(r.desired, "/") # {}
          /\ (PathsAt(r.desired, "/terminal") # {}) <=> r.template.attackBox
          /\ r.template.attackBox => PathsAt(r.desired, "/terminal") = { 1 }
          /\ \A b \in calls :
                (b.instance = r.instance /\ b.template = r.template) =>
                   /\ b.builder = "BuildService" =>
                         \A i \in PathsAt(r.desired, "/") :
                            /\ r.desired.paths[i].service = b.desired.name
                            /\ r.desired.paths[i].port = b.desired.port
                   /\ (b.builder = "BuildAttackBoxService" /\ b.desired.present) =>
                         \A i \in PathsAt(r.desired, "/terminal") :
                            /\ r.desired.paths[i].service = b.desired.name
                            /\ r.desired.paths[i].port = b.desired.port

\* C36, witness: the "/" path of the routing rule names port 80 of the
\* primary Service, and the Service built for the same instance and
\* Template exposes only the port of the Challenge, which is another one.
RootPathPortNotExposed ==
    \E r \in calls, b \in calls :
       /\ r.builder = "BuildIngress" /\ b.builder = "BuildService"
       /\ r.instance = b.instance /\ r.template = b.template
       /\ r.template.port = ChallengePort
       /\ \E i \in 1..Len(r.desired.paths) :
             /\ r.desired.paths[i].path = "/"
             /\ r.desired.paths[i].service = b.desired.name
             /\ r.desired.paths[i].port = 80
       /\ b.desired.port = ChallengePort
       /\ ChallengePort # 80

(***************************************************************************)
(* The gateway's naming of Instances.  Identifiers and names are sequences *)
(* of one-character strings, so that sanitizeName is computed character by *)
(* character as strings.ReplaceAll, strings.ToLower and the slice do.      *)
(***************************************************************************)
MaxStored == 2

NameLimit == 63

\* The challenge ids and source ids the gateway is called with: empty, plain,
\* with a hyphen, in upper case, with a dot and with an "@".
ChallengeIDs == { << >>, << "c" >>, << "c", "-", "c" >> }

SourceIDs ==
    { << >>, << "c" >>, << "C" >>, << "c", "-", "c" >>, << "c", ".", "c" >>,
      << "c", "@", "c" >> }

\* strings.ReplaceAll(s, old, new) for a one-character old.
RECURSIVE ReplaceAll(_, _, _)
ReplaceAll(s, old, new) ==
    IF s = << >> THEN << >>
    ELSE (IF Head(s) = old THEN new ELSE << Head(s) >>)
            \o ReplaceAll(Tail(s), old, new)

\* strings.ToLower, on the letters the identifiers are drawn from.
ToLower(s) ==
    [ i \in 1..Len(s) |-> IF s[i] = "C" THEN "c" ELSE s[i] ]

\* sanitizeName: "@" becomes "-at-", "." becomes "-", lower case, at most
\* 63 characters.
sanitizeName(s) ==
    LET lowered == ToLower(ReplaceAll(ReplaceAll(s, "@", << "-", "a", "t", "-" >>),
                                      ".", << "-" >>))
    IN  IF Len(lowered) > NameLimit THEN SubSeq(lowered, 1, NameLimit) ELSE lowered

\* fmt.Sprintf("chal-%s-%s", challengeID, sanitizeName(sourceID))
InstanceNameOf(challengeID, sourceID) ==
    << "c", "h", "a", "l", "-" >> \o challengeID \o << "-" >> \o sanitizeName(sourceID)

\* The API server accepts an object name that is a DNS subdomain: lower-case
\* letters, digits, "-" and ".", each label starting and ending with a
\* letter or digit.
LowerChars == { "a", "c", "h", "l", "t" }

ValidObjectName(name) ==
    /\ Len(name) \in 1..253
    /\ \A i \in 1..Len(name) : name[i] \in LowerChars \cup { "-", "." }
    /\ name[1] \in LowerChars /\ name[Len(name)] \in LowerChars
    /\ \A i \in 2..(Len(name) - 1) :
          name[i] = "." => (name[i - 1] \in LowerChars /\ name[i + 1] \in LowerChars)

\* The Instances the cluster stores, and the gateway's last response.
StoredInstances == { s \in calls : s.kind = "instance" }

NoStored ==
    [ kind |-> "none", name |-> << >>, challengeID |-> << >>, sourceID |-> << >>,
      flags |-> << >>, flagValidated |-> FALSE ]

\* client.Get by name.
GetStored(name) ==
    IF \E s \in StoredInstances : s.name = name
    THEN CHOOSE s \in StoredInstances : s.name = name
    ELSE NoStored

Response(fn, challengeID, sourceID, code, got) ==
    [ kind |-> "response", fn |-> fn, challengeID |-> challengeID,
      sourceID |-> sourceID, code |-> code, got |-> got ]

Respond(stored, response) ==
    /\ calls' = stored \cup { response }
    /\ UNCHANGED << environ, drawn >>
    /\ PureFrame

\* Handler.CreateInstance: the Instance of that name if there is one, else a
\* new one carrying the two identifiers.
GatewayCreateInstance(challengeID, sourceID) ==
    LET name == InstanceNameOf(challengeID, sourceID)
        existing == GetStored(name)
        instance == [ kind |-> "instance", name |-> name,
                      challengeID |-> challengeID, sourceID |-> sourceID,
                      flags |-> << >>, flagValidated |-> FALSE ]
    IN  IF challengeID = << >> \/ sourceID = << >>
        THEN Respond(StoredInstances,
                     Response("CreateInstance", challengeID, sourceID, 400, NoStored))
        ELSE IF existing # NoStored
        THEN Respond(StoredInstances,
                     Response("CreateInstance", challengeID, sourceID, 200, existing))
        ELSE IF ~ValidObjectName(name)
        THEN Respond(StoredInstances,
                     Response("CreateInstance", challengeID, sourceID, 500, NoStored))
        ELSE /\ Cardinality(StoredInstances) < MaxStored
             /\ Respond(StoredInstances \cup { instance },
                        Response("CreateInstance", challengeID, sourceID, 201, instance))

\* Handler.GetInstance
GatewayGetInstance(challengeID, sourceID) ==
    LET instance == GetStored(InstanceNameOf(challengeID, sourceID))
    IN  IF challengeID = << >> \/ sourceID = << >>
        THEN Respond(StoredInstances,
                     Response("GetInstance", challengeID, sourceID, 400, NoStored))
        ELSE IF instance = NoStored
        THEN Respond(StoredInstances,
                     Response("GetInstance", challengeID, sourceID, 404, NoStored))
        ELSE Respond(StoredInstances,
                     Response("GetInstance", challengeID, sourceID, 200, instance))

\* Handler.DeleteInstance
GatewayDeleteInstance(challengeID, sourceID) ==
    LET instance == GetStored(InstanceNameOf(challengeID, sourceID))
    IN  IF challengeID = << >> \/ sourceID = << >>
        THEN Respond(StoredInstances,
                     Response("DeleteInstance", challengeID, sourceID, 400, NoStored))
        ELSE IF instance = NoStored
        THEN Respond(StoredInstances,
                     Response("DeleteInstance", challengeID, sourceID, 404, NoStored))
        ELSE Respond(StoredInstances \ { instance },
                     Response("DeleteInstance", challengeID, sourceID, 200, instance))

\* Handler.ValidateFlag
GatewayValidateFlag(challengeID, sourceID, flag) ==
    LET instance == GetStored(InstanceNameOf(challengeID, sourceID))
        validated == [ instance EXCEPT !.flagValidated = TRUE ]
    IN  IF flag = ""
        THEN Respond(StoredInstances,
                     Response("ValidateFlag", challengeID, sourceID, 400, NoStored))
        ELSE IF instance = NoStored
        THEN Respond(StoredInstances,
                     Response("ValidateFlag", challengeID, sourceID, 404, NoStored))
        ELSE IF \A i \in 1..Len(instance.flags) : instance.flags[i] # flag
        THEN Respond(StoredInstances,
                     Response("ValidateFlag", challengeID, sourceID, 403, instance))
        ELSE Respond((StoredInstances \ { instance }) \cup { validated },
                     Response("ValidateFlag", challengeID, sourceID, 200, validated))

\* The Reconciler's flag generation for a stored Instance without flags.
StoreGeneratedFlags(instance) ==
    /\ instance.flags = << >>
    /\ calls' = (calls \ { instance })
                   \cup { [ instance EXCEPT !.flags = << FlagValues[1] >> ] }
    /\ UNCHANGED << environ, drawn >>
    /\ PureFrame

InitNaming == InitPure({ "" })

NextNaming ==
    \/ \E challengeID \in ChallengeIDs, sourceID \in SourceIDs :
          \/ GatewayCreateInstance(challengeID, sourceID)
          \/ GatewayGetInstance(challengeID, sourceID)
          \/ GatewayDeleteInstance(challengeID, sourceID)
          \/ GatewayValidateFlag(challengeID, sourceID, FlagValues[1])
    \/ \E instance \in StoredInstances : StoreGeneratedFlags(instance)

SpecNaming == InitNaming /\ [][NextNaming]_vars

\* C37 -- One Instance per (template, source) pair: the Instance that
\* CreateInstance, GetInstance, ValidateFlag or DeleteInstance returns,
\* validates against or deletes for a challenge id and a source id is the
\* Instance of that pair, and two stored Instances of the same name do not
\* exist for different pairs.
OneInstancePerPair ==
    \A r \in calls :
       (r.kind = "response" /\ r.got # NoStored) =>
          /\ r.got.challengeID = r.challengeID
          /\ r.got.sourceID = r.sourceID

\* C37, witness: DeleteInstance for one pair of non-empty identifiers has
\* deleted the Instance created for another pair.
DeletedInstanceOfAnotherPair ==
    \E r \in calls :
       /\ r.kind = "response" /\ r.fn = "DeleteInstance" /\ r.code = 200
       /\ r.challengeID # << >> /\ r.sourceID # << >>
       /\ ValidObjectName(r.got.name)
       /\ r.got.name = InstanceNameOf(r.challengeID, r.sourceID)
       /\ << r.got.challengeID, r.got.sourceID >> # << r.challengeID, r.sourceID >>
       /\ r.got \notin StoredInstances

\* C38 -- No lost objective-met update: once the gateway's write of
\* FlagValidated has been accepted, the stored status of the instance is
\* not written any more until it is deleted (a pass that fetched it before
\* the write has its Status().Update refused, so FlagValidated is never
\* reset to false), and the instance is eventually deleted.
NoLostObjectiveMet ==
    /\ [][ \A n \in InstanceNames :
              ( /\ instances[n].uid # 0
                /\ instances[n].flagValidated
                /\ instances'[n].uid = instances[n].uid )
              => WithStatus(instances[n], instances'[n]) = instances[n] ]_vars
    /\ \A n \in {MainName} : \A uid \in 1..MaxUid :
          (instances[n].uid = uid /\ instances[n].flagValidated)
             ~> (instances[n].uid # uid)

\* C38, witness: a pass that fetched the instance before the gateway's
\* write has had its status update refused, the stored FlagValidated still
\* set.
StaleUpdateRefused ==
    /\ pc = "done"
    /\ instances[req].uid # 0
    /\ instances[req].uid = local.uid
    /\ instances[req].flagValidated
    /\ ~local.flagValidated
    /\ localStale
    /\ result.err
    /\ callFailed

(***************************************************************************)
(* Specification with a primary workload that comes and goes: the          *)
(* Deployment of an instance gains and loses its ready replica and is      *)
(* deleted out of band (the next pass creates it again); the Challenge is  *)
(* deleted and applied again.  No call fails transiently.                  *)
(***************************************************************************)
\* The pods of the Deployment stop being ready.
DeploymentUnready(k) ==
    /\ ~frozen
    /\ resources[k].present
    /\ k = <<"Deployment", DeploymentName(resources[k].ownerName)>>
    /\ resources[k].readyReplicas > 0
    /\ resources' = [ resources EXCEPT ![k].readyReplicas = 0 ]
    /\ queue' = Enqueue(queue, resources[k].ownerName)
    /\ UNCHANGED << instances, challenge, environ, calls, challengeExists, now, nextUid, drawn,
                    failures, passVars, histVars >>

\* The Deployment is deleted out of band; the owner is enqueued.
DeleteDeployment(k) ==
    /\ ~frozen
    /\ resources[k].present
    /\ k = <<"Deployment", DeploymentName(resources[k].ownerName)>>
    /\ resources' = [ resources EXCEPT ![k] = NoResource ]
    /\ queue' = Enqueue(queue, resources[k].ownerName)
    /\ UNCHANGED << instances, challenge, environ, calls, challengeExists, now, nextUid, drawn,
                    failures, passVars, histVars >>

InitLatch ==
    /\ InitBuildWith({ ChallengeConfig(FALSE, FALSE, FALSE, "NodePort"),
                       ChallengeConfig(TRUE, FALSE, TRUE, "LoadBalancer") })
    /\ instances[MainName].uid # 0

NextLatch ==
    \/ \E n \in {MainName} : StartPass(n)
    \/ ProvisioningPass
    \/ UpdateFailed
    \/ DeleteChallenge
    \/ ApplyChallenge
    \/ \E k \in ResourceKeys : DeploymentReady(k)
    \/ \E k \in ResourceKeys : DeploymentUnready(k)
    \/ \E k \in ResourceKeys : DeleteDeployment(k)
    \/ \E k \in ResourceKeys : AssignLoadBalancer(k)

SpecLatch == InitLatch /\ [][NextLatch]_vars

\* C39 -- Readiness is latched: a stored instance that is ready stays ready,
\* and one that is ready and Running does not go back to Pending, whatever
\* the Deployment reports later and whether or not it is deleted and created
\* again.
ReadinessLatched ==
    [][ \A n \in InstanceNames :
           ( /\ instances[n].uid # 0
             /\ instances'[n].uid = instances[n].uid
             /\ instances[n].ready )
           => /\ instances'[n].ready
              /\ instances[n].phase = "Running" => instances'[n].phase # "Pending" ]_vars

\* C39, witness: a pass that fetched the instance ready and Running has
\* found its Deployment gone, has created it again and has persisted the
\* status; the new Deployment has no ready replica and the stored instance
\* is still ready and Running.
StillReadyAfterRecreation ==
    /\ pc = "ensureService"
    /\ "Create" \in writes /\ "StatusUpdate" \in writes
    /\ local.ready
    /\ instances[req].uid # 0
    /\ instances[req].uid = local.uid
    /\ instances[req].ready /\ instances[req].phase = "Running"
    /\ resources[<<"Deployment", DeploymentName(req)>>].present
    /\ resources[<<"Deployment", DeploymentName(req)>>].readyReplicas = 0
====
